---------------------------- MODULE Spec2Model ----------------------------
(***************************************************************************)
(* Seating layout and guest assignment of the conference seating planner   *)
(* (FloorPlan.vue, ConfigurationPanel.vue).                                *)
(*                                                                         *)
(* Numbers.  JavaScript numbers are modelled in fixed point: a real value  *)
(* v is the integer v * FP, with FP = 1000 (thousandths).  Products and    *)
(* quotients of two reals round down to the next thousandth (Mul, Div),    *)
(* which stands for the rounding of IEEE doubles; the layout's tolerance   *)
(* of 0.01 pixel is Tolerance = 10 thousandths.  Counts (rows, seats,      *)
(* blocks, indices) are plain integers.                                    *)
(*                                                                         *)
(* Strings.  The section names `fen qu N' of the source are written        *)
(* "Zone" \o ToString(N), the default roster section `wei fen pei' is      *)
(* "Unassigned"; JavaScript's null is the string NULL.                     *)
(***************************************************************************)
EXTENDS Integers, Sequences, FiniteSets, TLC

VARIABLES
    roomSettings,     \* props.roomSettings: [width, length] (metres)
    stageSettings,    \* props.stageSettings: [exists, width, length]
    seatSections,     \* props.seatSections: sequence of section records
    zoom,             \* zoom.value
    offsetX,          \* offsetX.value
    offsetY,          \* offsetY.value
    seats,            \* seats.value: sequence of seat records
    guests,           \* guests.value: sequence of guest records
    sectionColors,    \* sectionColors.value: section name -> colour
    isDragging,       \* isDragging.value (the canvas is being panned)
    isDraggingSeat,   \* isDraggingSeat.value
    dragSourceSeatId, \* dragSourceSeatId.value
    reading,          \* the files whose FileReader has not fired yet, oldest first
    layer,            \* 11111.js: the layer script, its timer and the scene
    popup             \* index.vue: the render-config popup and the scene it starts

vars == <<roomSettings, stageSettings, seatSections, zoom, offsetX, offsetY,
          seats, guests, sectionColors, isDragging, isDraggingSeat,
          dragSourceSeatId, reading, layer, popup>>

\* the two programs beside the seating planner
beside == <<layer, popup>>

config == <<roomSettings, stageSettings, seatSections>>
viewport == <<zoom, offsetX, offsetY>>
dragState == <<isDraggingSeat, dragSourceSeatId>>

NULL == "null"

-----------------------------------------------------------------------------
(* Fixed-point arithmetic *)

Tolerance == 10

FP == 100 * Tolerance

Mul(a, b) == (a * b) \div FP

Div(a, b) == (a * FP) \div b

Min(a, b) == IF a < b THEN a ELSE b

Max(a, b) == IF a > b THEN a ELSE b

Abs(a) == IF a < 0 THEN 0 - a ELSE a

\* Math.ceil(a / b) for counts a >= 0, b >= 1
Ceil(a, b) == (a + b - 1) \div b

-----------------------------------------------------------------------------
(* Canvas and viewport: generateSeats, lines 995-1026 *)

\* canvas.width and canvas.height (pixels), set from the container by
\* updateCanvasSize; the container does not change size in this model.
CanvasWidth == 400

CanvasHeight == 400

scale == 20

baseScale(room) ==
    LET roomWidthPx  == room.width * scale
        roomLengthPx == room.length * scale
        scaleX == Div(CanvasWidth * FP, roomWidthPx)
        scaleY == Div(CanvasHeight * FP, roomLengthPx)
    IN  Mul(Min(scaleX, scaleY), 900)

finalScale(room, z) == Mul(baseScale(room), z)

baseOffsetX(room) ==
    (CanvasWidth * FP - Mul(room.width * scale, baseScale(room))) \div 2

baseOffsetY(room) ==
    (CanvasHeight * FP - Mul(room.length * scale, baseScale(room))) \div 2

\* metres -> pixels: m * scale * finalScale
ToPx(m, fs) == Mul(m * scale, fs)


-----------------------------------------------------------------------------
(* Row packing: generateSeats, lines 1043-1126 *)

\* The pixel geometry of one section (lines 1044-1055).
sectionGeometry(room, section, z, ox) ==
    LET fs == finalScale(room, z)
        seatWidth    == ToPx(section.seatWidth, fs)
        seatSpacingX == ToPx(section.seatLeftRightSpacing, fs)
    IN  [sectionLeft  |-> baseOffsetX(room) + ox + ToPx(section.leftWallDistance, fs),
         sectionWidth |-> Mul(room.width * scale, fs)
                          - ToPx(section.leftWallDistance + section.rightWallDistance, fs),
         seatWidth    |-> seatWidth,
         seatLength   |-> ToPx(section.seatLength, fs),
         seatSpacingX |-> seatSpacingX,
         seatSpacingY |-> ToPx(section.seatFrontBackSpacing, fs),
         aisleWidth   |-> ToPx(section.aisleWidth, fs),
         seatUnitWidth |-> seatWidth + seatSpacingX,
         maxContinuousSeats |-> section.maxContinuousSeats]

\* Math.floor((sectionWidth + seatSpacingX) / seatUnitWidth), line 1063
maxSeatsWithoutAisles(g) == (g.sectionWidth + g.seatSpacingX) \div g.seatUnitWidth

maxTries == 50

\* line 1102
step(maxSeats) == IF maxSeats > 100 THEN Max(1, maxSeats \div 50) ELSE 1

\* A scan that leaves the aisles at the configured width.
tryLoopNoWiden(g, trySeats, tries) ==
    LET by == step(maxSeatsWithoutAisles(g))
        candidate(k) == trySeats - k * by
        numAislesOf(k) == Ceil(candidate(k), g.maxContinuousSeats) - 1
        minTotalWidth(k) == candidate(k) * g.seatUnitWidth - g.seatSpacingX
                            + numAislesOf(k) * g.aisleWidth
        iterations == 0..(Min(maxTries - tries, (trySeats - 1) \div by + 1) - 1)
        fitting == {k \in iterations : minTotalWidth(k) <= g.sectionWidth}
    IN  IF fitting = {}
        THEN [bestSeatCount |-> 0, bestAisleWidths |-> <<>>,
              tries |-> tries + Cardinality(iterations)]
        ELSE LET k == CHOOSE first \in fitting : \A other \in fitting : first <= other
             IN  [bestSeatCount |-> candidate(k),
                  bestAisleWidths |-> [i \in 1..numAislesOf(k) |-> g.aisleWidth],
                  tries |-> tries + k]

\* A scan that puts an aisle after every block, the last one included.
tryLoopAisleAfterLastBlock(g, trySeats, tries) ==
    LET by == step(maxSeatsWithoutAisles(g))
        candidate(k) == trySeats - k * by
        numAislesOf(k) == Ceil(candidate(k), g.maxContinuousSeats)
        minTotalWidth(k) == candidate(k) * g.seatUnitWidth - g.seatSpacingX
                            + numAislesOf(k) * g.aisleWidth
        iterations == 0..(Min(maxTries - tries, (trySeats - 1) \div by + 1) - 1)
        fitting == {k \in iterations : minTotalWidth(k) <= g.sectionWidth}
    IN  IF fitting = {}
        THEN [bestSeatCount |-> 0, bestAisleWidths |-> <<>>,
              tries |-> tries + Cardinality(iterations)]
        ELSE LET k == CHOOSE first \in fitting : \A other \in fitting : first <= other
                 extraSpace == g.sectionWidth - minTotalWidth(k)
             IN  [bestSeatCount |-> candidate(k),
                  bestAisleWidths |->
                      [i \in 1..numAislesOf(k) |->
                          g.aisleWidth + extraSpace \div numAislesOf(k)],
                  tries |-> tries + k]

\* A scan that accepts a candidate up to one seat unit too wide.
tryLoopOneMore(g, trySeats, tries) ==
    LET by == step(maxSeatsWithoutAisles(g))
        candidate(k) == trySeats - k * by
        numAislesOf(k) == Ceil(candidate(k), g.maxContinuousSeats) - 1
        minTotalWidth(k) == candidate(k) * g.seatUnitWidth - g.seatSpacingX
                            + numAislesOf(k) * g.aisleWidth
        iterations == 0..(Min(maxTries - tries, (trySeats - 1) \div by + 1) - 1)
        fitting == {k \in iterations : minTotalWidth(k) <= g.sectionWidth + g.seatUnitWidth}
    IN  IF fitting = {}
        THEN [bestSeatCount |-> 0, bestAisleWidths |-> <<>>,
              tries |-> tries + Cardinality(iterations)]
        ELSE LET k == CHOOSE first \in fitting : \A other \in fitting : first <= other
                 numAisles == numAislesOf(k)
                 extraSpace == g.sectionWidth - minTotalWidth(k)
             IN  [bestSeatCount |-> candidate(k),
                  bestAisleWidths |->
                      [i \in 1..numAisles |-> g.aisleWidth + extraSpace \div numAisles],
                  tries |-> tries + k]

\* A scan without the cap on the probes.
tryLoopUncapped(g, trySeats, tries) ==
    LET by == step(maxSeatsWithoutAisles(g))
        candidate(k) == trySeats - k * by
        numAislesOf(k) == Ceil(candidate(k), g.maxContinuousSeats) - 1
        minTotalWidth(k) == candidate(k) * g.seatUnitWidth - g.seatSpacingX
                            + numAislesOf(k) * g.aisleWidth
        iterations == 0..((trySeats - 1) \div by)
        fitting == {k \in iterations : minTotalWidth(k) <= g.sectionWidth}
    IN  IF fitting = {}
        THEN [bestSeatCount |-> 0, bestAisleWidths |-> <<>>,
              tries |-> tries + Cardinality(iterations)]
        ELSE LET k == CHOOSE first \in fitting : \A other \in fitting : first <= other
                 numAisles == numAislesOf(k)
                 extraSpace == g.sectionWidth - minTotalWidth(k)
             IN  [bestSeatCount |-> candidate(k),
                  bestAisleWidths |->
                      [i \in 1..numAisles |-> g.aisleWidth + extraSpace \div numAisles],
                  tries |-> tries + k]

\* The downward scan, lines 1074-1105, from trySeats with tries probes spent:
\* the first candidate that fits, with its widened aisles, or seat count 0
\* when the scan ends without one.  Iteration k of the loop (k = 0 first)
\* probes trySeats - k * step; the loop ends at the first k that fits, below
\* candidate 1 (after (trySeats - 1) \div step + 1 iterations), or with
\* maxTries probes spent.
tryLoop(g, trySeats, tries) ==
    LET by == step(maxSeatsWithoutAisles(g))
        candidate(k) == trySeats - k * by
        numAislesOf(k) == Ceil(candidate(k), g.maxContinuousSeats) - 1
        \* lines 1079-1081
        minTotalWidth(k) == candidate(k) * g.seatUnitWidth - g.seatSpacingX
                            + numAislesOf(k) * g.aisleWidth
        iterations == 0..(Min(maxTries - tries, (trySeats - 1) \div by + 1) - 1)
        fitting == {k \in iterations : minTotalWidth(k) <= g.sectionWidth}
    IN  IF fitting = {}
        THEN [bestSeatCount |-> 0, bestAisleWidths |-> <<>>,
              tries |-> tries + Cardinality(iterations)]
        ELSE LET k == CHOOSE first \in fitting : \A other \in fitting : first <= other
                 numAisles == numAislesOf(k)
                 extraSpace == g.sectionWidth - minTotalWidth(k)
             IN  [bestSeatCount |-> candidate(k),
                  bestAisleWidths |->
                      [i \in 1..numAisles |-> g.aisleWidth + extraSpace \div numAisles],
                  tries |-> tries + k]

\* A fallback that places one seat whatever the width.
packRowFallbackAlways(g) ==
    LET found == tryLoop(g, maxSeatsWithoutAisles(g), 0)
    IN  IF found.bestSeatCount = 0
        THEN [bestSeatCount |-> 1, bestAisleWidths |-> <<>>, tries |-> found.tries]
        ELSE found

\* Lines 1062-1115: the seat count and aisle widths of a row; seat count 0
\* means the row is skipped.
packRow(g) ==
    LET found == tryLoop(g, maxSeatsWithoutAisles(g), 0)
    IN  IF found.bestSeatCount = 0
        THEN IF g.sectionWidth >= g.seatWidth
             THEN [bestSeatCount |-> 1, bestAisleWidths |-> <<>>, tries |-> found.tries]
             ELSE found
        ELSE found

\* Blocks of even size.
seatsPerBlockEven(bestSeatCount, maxContinuousSeats) ==
    LET numBlocks == Ceil(bestSeatCount, maxContinuousSeats)
    IN  [i \in 1..numBlocks |->
            bestSeatCount \div numBlocks
                + (IF i <= bestSeatCount % numBlocks THEN 1 ELSE 0)]

\* lines 1117-1126
seatsPerBlock(bestSeatCount, maxContinuousSeats) ==
    [i \in 1..Ceil(bestSeatCount, maxContinuousSeats) |->
        Min(bestSeatCount - (i - 1) * maxContinuousSeats, maxContinuousSeats)]

-----------------------------------------------------------------------------
(* Seats: generateSeats, lines 976-990 and 1128-1306 *)

\* An id without the section index.
seatIdNoSection(sectionIndex, row, seatCol) ==
    "R" \o ToString(row + 1) \o "-" \o ToString(seatCol)

seatId(sectionIndex, row, seatCol) ==
    "S" \o ToString(sectionIndex + 1) \o "-R" \o ToString(row + 1)
        \o "-" \o ToString(seatCol)

\* A lookup that answers with the last old seat, whatever the id.
existingAny(oldSeats, id) ==
    IF Len(oldSeats) = 0 THEN <<>> ELSE <<oldSeats[Len(oldSeats)]>>

\* A lookup that never finds the old seat.
existingNever(oldSeats, id) == <<>>

\* existingSeatsMap[id], lines 976-990: the state of the last old seat with
\* that id; Len = 0 stands for undefined.
existingSeatsMap(oldSeats, id) ==
    LET hits == SelectSeq(oldSeats, LAMBDA s : s.id = id)
    IN  IF Len(hits) = 0 THEN <<>> ELSE <<hits[Len(hits)]>>

\* A seat object that takes nothing from the seat that had its id.
newSeatBlank(oldSeats, random, id, seatX, rowY, g, name, row, seatCol) ==
    [id |-> id, x |-> seatX, y |-> rowY,
     width |-> g.seatWidth, height |-> g.seatLength,
     occupied |-> FALSE, vip |-> FALSE,
     section |-> name, row |-> row + 1, col |-> seatCol,
     guestId |-> NULL, guestNumber |-> NULL, guestName |-> NULL,
     guestUnit |-> NULL, assignedSection |-> NULL, sectionColor |-> NULL,
     isSelected |-> FALSE]

\* One pushed seat object (lines 1142-1160).  random[id] is the outcome of
\* Math.random() > 0.7 drawn for a seat without existing state (the draws of
\* seats that a regeneration removes again are not recorded).
newSeat(oldSeats, random, id, seatX, rowY, g, name, row, seatCol) ==
    LET existing == existingSeatsMap(oldSeats, id)
        has == Len(existing) > 0
        existingState == existing[1]
    IN  [id |-> id, x |-> seatX, y |-> rowY,
         width |-> g.seatWidth, height |-> g.seatLength,
         occupied |-> IF has THEN existingState.occupied
                      ELSE (id \in DOMAIN random /\ random[id]),
         vip |-> IF has THEN existingState.vip ELSE FALSE,
         section |-> name, row |-> row + 1, col |-> seatCol,
         guestId |-> IF has THEN existingState.guestId ELSE NULL,
         guestNumber |-> IF has THEN existingState.guestNumber ELSE NULL,
         guestName |-> IF has THEN existingState.guestName ELSE NULL,
         guestUnit |-> IF has THEN existingState.guestUnit ELSE NULL,
         assignedSection |-> IF has THEN existingState.assignedSection ELSE NULL,
         sectionColor |-> IF has THEN existingState.sectionColor ELSE NULL,
         isSelected |-> IF has THEN existingState.isSelected ELSE FALSE]

\* The block loop of lines 1132-1173 (and again 1199-1237): the seats of the
\* row pushed block by block and the x reached. aisles[blockIndex] || fallback
\* is the aisle after a block.
RECURSIVE layBlocks(_, _, _, _, _, _, _, _, _, _, _, _)
layBlocks(oldSeats, random, g, name, sectionIndex, row, rowY, perBlock, aisles, fallback, blockIndex, acc) ==
    IF blockIndex >= Len(perBlock)
    THEN acc
    ELSE LET seatsInBlock == perBlock[blockIndex + 1]
             pushed == [seatInBlock \in 1..seatsInBlock |->
                          newSeat(oldSeats, random,
                                  seatId(sectionIndex, row, acc.seatCol + seatInBlock - 1),
                                  acc.currentX + (seatInBlock - 1) * g.seatUnitWidth,
                                  rowY, g, name, row, acc.seatCol + seatInBlock - 1)]
             afterBlock == acc.currentX + seatsInBlock * g.seatUnitWidth - g.seatSpacingX
             actualAisleWidth ==
                 IF blockIndex + 1 <= Len(aisles) /\ aisles[blockIndex + 1] # 0
                 THEN aisles[blockIndex + 1] ELSE fallback
         IN  layBlocks(oldSeats, random, g, name, sectionIndex, row, rowY, perBlock,
                       aisles, fallback, blockIndex + 1,
                       [seats |-> acc.seats \o pushed,
                        seatCol |-> acc.seatCol + seatsInBlock,
                        currentX |-> IF blockIndex < Len(perBlock) - 1
                                     THEN afterBlock + actualAisleWidth
                                     ELSE afterBlock])


\* A row that stays as the first pass laid it.
layRowFirstPass(oldSeats, random, newSeats, g, name, sectionIndex, row, rowY, best) ==
    IF best.bestSeatCount = 0
    THEN newSeats
    ELSE newSeats \o layBlocks(oldSeats, random, g, name, sectionIndex, row, rowY,
                               seatsPerBlock(best.bestSeatCount, g.maxContinuousSeats),
                               best.bestAisleWidths, g.aisleWidth, 0,
                               [seats |-> <<>>, seatCol |-> 1,
                                currentX |-> g.sectionLeft]).seats

\* The seats of one row appended to newSeats, lines 1117-1306, given what the
\* packing of lines 1062-1115 found.
layRow(oldSeats, random, newSeats, g, name, sectionIndex, row, rowY, best) ==
    LET bestSeatCount == best.bestSeatCount
        bestAisleWidths == best.bestAisleWidths
        numBlocks == Ceil(bestSeatCount, g.maxContinuousSeats)
        perBlock == seatsPerBlock(bestSeatCount, g.maxContinuousSeats)
        start == [seats |-> <<>>, seatCol |-> 1, currentX |-> g.sectionLeft]
        \* lines 1128-1173
        first == layBlocks(oldSeats, random, g, name, sectionIndex, row, rowY,
                           perBlock, bestAisleWidths, g.aisleWidth, 0, start)
        \* lines 1175-1177
        totalOccupiedWidth == first.currentX - g.sectionLeft
        adjustment == g.sectionWidth - totalOccupiedWidth
        \* lines 1182-1188: every seat with this row number and section name
        kept == SelectSeq(newSeats \o first.seats,
                          LAMBDA s : ~(s.row = row + 1 /\ s.section = name))
        \* lines 1191-1237
        adjustmentPerAisle == adjustment \div (numBlocks - 1)
        adjustedAisleWidths ==
            [i \in 1..Len(bestAisleWidths) |-> bestAisleWidths[i] + adjustmentPerAisle]
        multi == layBlocks(oldSeats, random, g, name, sectionIndex, row, rowY,
                           perBlock, adjustedAisleWidths,
                           g.aisleWidth + adjustmentPerAisle, 0, start)
        \* lines 1238-1276
        totalSeatWidth == bestSeatCount * g.seatWidth
        totalSpacingWidth == g.sectionWidth - totalSeatWidth
        spacingBetweenSeats == totalSpacingWidth \div (bestSeatCount - 1)
        respaced == [seatCol \in 1..bestSeatCount |->
                        newSeat(oldSeats, random, seatId(sectionIndex, row, seatCol),
                                g.sectionLeft
                                  + (seatCol - 1) * (g.seatWidth + spacingBetweenSeats),
                                rowY, g, name, row, seatCol)]
        \* lines 1277-1305
        single == <<newSeat(oldSeats, random, seatId(sectionIndex, row, 1),
                            g.sectionLeft, rowY, g, name, row, 1)>>
    IN  IF bestSeatCount = 0
        THEN newSeats                                   \* continue, line 1113
        ELSE IF Abs(adjustment) > Tolerance
        THEN IF numBlocks > 1 THEN kept \o multi.seats
             ELSE IF bestSeatCount > 1 THEN kept \o respaced
             ELSE kept \o single
        ELSE newSeats \o first.seats

\* One iteration of the row loop, lines 1058-1306: the row is packed, then laid.
generateRow(oldSeats, random, newSeats, g, name, sectionIndex, row, rowY) ==
    layRow(oldSeats, random, newSeats, g, name, sectionIndex, row, rowY, packRow(g))

\* The row loop of one section, lines 1058-1307.
RECURSIVE generateRows(_, _, _, _, _, _, _, _)
generateRows(oldSeats, random, newSeats, g, section, sectionIndex, row, currentY) ==
    IF row >= section.rows
    THEN newSeats
    ELSE generateRows(oldSeats, random,
                      generateRow(oldSeats, random, newSeats, g, section.name,
                                  sectionIndex, row,
                                  currentY + row * (g.seatLength + g.seatSpacingY)),
                      g, section, sectionIndex, row + 1, currentY)

\* Sections that leave the front-back spacing after their last row too.
RECURSIVE generateSectionsTrailingGap(_, _, _, _, _, _, _, _, _)
generateSectionsTrailingGap(oldSeats, random, newSeats, room, sections, z, ox, sectionIndex, y) ==
    IF sectionIndex >= Len(sections)
    THEN newSeats
    ELSE LET section == sections[sectionIndex + 1]
             g == sectionGeometry(room, section, z, ox)
             currentY == y + ToPx(section.previousSectionDistance, finalScale(room, z))
         IN  generateSectionsTrailingGap(oldSeats, random,
                 generateRows(oldSeats, random, newSeats, g, section,
                              sectionIndex, 0, currentY),
                 room, sections, z, ox, sectionIndex + 1,
                 currentY + section.rows * (g.seatLength + g.seatSpacingY))

\* props.seatSections.forEach, lines 1039-1311.
RECURSIVE generateSections(_, _, _, _, _, _, _, _, _)
generateSections(oldSeats, random, newSeats, room, sections, z, ox, sectionIndex, y) ==
    IF sectionIndex >= Len(sections)
    THEN newSeats
    ELSE LET section == sections[sectionIndex + 1]
             fs == finalScale(room, z)
             g == sectionGeometry(room, section, z, ox)
             currentY == y + ToPx(section.previousSectionDistance, fs)
         IN  generateSections(oldSeats, random,
                 generateRows(oldSeats, random, newSeats, g, section,
                              sectionIndex, 0, currentY),
                 room, sections, z, ox, sectionIndex + 1,
                 currentY + section.rows * g.seatLength
                          + (section.rows - 1) * g.seatSpacingY)

\* generateSeats, lines 972-1316: the new value of seats.
generateSeats(oldSeats, random, room, stage, sections, z, ox, oy) ==
    LET offsetYWithZoom == baseOffsetY(room) + oy
        stageLength == ToPx(stage.length, finalScale(room, z))
        currentY == IF stage.exists THEN offsetYWithZoom + stageLength
                    ELSE offsetYWithZoom
    IN  generateSections(oldSeats, random, <<>>, room, sections, z, ox, 0, currentY)

-----------------------------------------------------------------------------
(* Roster import: lines 1855-1941 *)

Falsy(v) == v = NULL \/ v = ""

\* The rows a sheet may hold.  A row is what sheet_to_json gives for it, with
\* the alternative column headers of one field merged; NULL is a missing cell.
\* Rows(names): a filled row for every section name, and a row that has a
\* name but neither a number nor a section.
Rows(names) ==
    {[number |-> "001", name |-> "Ann", unit |-> "Acme", section |-> n] : n \in names}
    \cup {[number |-> NULL, name |-> "Bob", unit |-> NULL, section |-> NULL]}

\* The files with at most n rows, and a file that cannot be read as a sheet.
Files(n, rows) ==
    {[readable |-> FALSE, rows |-> <<>>]}
    \cup {[readable |-> TRUE, rows |-> r] : r \in UNION {[1..k -> rows] : k \in 0..n}}

\* The mapping of one row, lines 1892-1908: the guest, or ok = FALSE for the
\* thrown error.
parseRow(row, index) ==
    LET number  == IF ~Falsy(row.number) THEN row.number
                   ELSE "GUEST" \o ToString(index + 1)
        section == IF ~Falsy(row.section) THEN row.section ELSE "Unassigned"
    IN  [ok |-> ~(Falsy(number) \/ Falsy(section)),
         guest |-> [id |-> "G" \o ToString(index + 1),
                    number |-> number,
                    name |-> IF ~Falsy(row.name) THEN row.name ELSE "",
                    unit |-> IF ~Falsy(row.unit) THEN row.unit ELSE "",
                    assignedSection |-> section,
                    seatId |-> NULL]]

\* parseExcelData, lines 1879-1922: resolve(guestsData) or reject(error).
parseExcelData(file) ==
    LET parsed == [i \in 1..Len(file.rows) |-> parseRow(file.rows[i], i - 1)]
    IN  IF file.readable /\ \A i \in 1..Len(parsed) : parsed[i].ok
        THEN [resolved |-> TRUE, data |-> [i \in 1..Len(parsed) |-> parsed[i].guest]]
        ELSE [resolved |-> FALSE, data |-> <<>>]

colors ==
    << "#409eff", "#67c23a", "#e6a23c", "#f56c6c", "#909399",
       "#337ecc", "#5daf34", "#b88230", "#d9363e", "#757575",
       "#53a8ff", "#85ce61", "#ebb563", "#f78989", "#a6a9ad" >>

\* [...new Set(guests.value.map(g => g.assignedSection))]: first-seen order
RECURSIVE uniqueSections(_, _)
uniqueSections(gs, acc) ==
    IF gs = <<>> THEN acc
    ELSE uniqueSections(Tail(gs),
            IF \E i \in 1..Len(acc) : acc[i] = Head(gs).assignedSection
            THEN acc ELSE Append(acc, Head(gs).assignedSection))

\* generateSectionColors, lines 1928-1941: the new sectionColors.value
generateSectionColors(gs) ==
    LET unique == uniqueSections(gs, <<>>)
    IN  [name \in {unique[i] : i \in 1..Len(unique)} |->
            LET index == CHOOSE i \in 1..Len(unique) : unique[i] = name
            IN  colors[((index - 1) % Len(colors)) + 1]]

-----------------------------------------------------------------------------
(* Assignment: assignGuestsToSeats, lines 1948-2026 *)

\* A clearing that leaves the section and its colour on the seat.
clearGuestKeepsSection(seat) ==
    [seat EXCEPT !.guestId = NULL, !.guestNumber = NULL, !.guestName = NULL,
                 !.guestUnit = NULL]

clearGuest(seat) ==
    [seat EXCEPT !.guestId = NULL, !.guestNumber = NULL, !.guestName = NULL,
                 !.guestUnit = NULL, !.assignedSection = NULL, !.sectionColor = NULL]

\* ascending positions at which a sequence of truth values holds TRUE: the
\* positions that filter, find and findIndex go through
Positions(hits) ==
    SelectSeq([i \in 1..Len(hits) |-> i], LAMBDA i : hits[i])

\* The inner loop, lines 1999-2016: seat i of the section takes candidate i.
\* st.unassigned holds positions in guests (the objects of unassignedGuests).
RECURSIVE assignLoop(_, _, _, _, _, _)
assignLoop(st, colorOf, sectionSeats, candidates, i, seatsToAssign) ==
    IF i >= seatsToAssign THEN st
    ELSE LET si == sectionSeats[i + 1]
             gi == candidates[i + 1]
             guest == st.guests[gi]
             guestIndex == Positions([k \in 1..Len(st.unassigned) |->
                                         st.guests[st.unassigned[k]].id = guest.id])
         IN  assignLoop(
                 [seats |-> [st.seats EXCEPT
                                ![si].guestId = guest.id,
                                ![si].guestNumber = guest.number,
                                ![si].guestName = guest.name,
                                ![si].guestUnit = guest.unit,
                                ![si].assignedSection = guest.assignedSection,
                                ![si].sectionColor =
                                    IF guest.assignedSection \in DOMAIN colorOf
                                    THEN colorOf[guest.assignedSection]
                                    ELSE "undefined"],
                  guests |-> [st.guests EXCEPT ![gi].seatId = st.seats[si].id],
                  unassigned |->
                      IF guestIndex = <<>> THEN st.unassigned
                      ELSE [k \in 1..(Len(st.unassigned) - 1) |->
                               IF k < guestIndex[1] THEN st.unassigned[k]
                               ELSE st.unassigned[k + 1]]],
                 colorOf, sectionSeats, candidates, i + 1, seatsToAssign)

\* Candidates that are the whole pending pool when nobody targets the section.
guestsToAssignAll(gs, unassigned, currentSection) ==
    LET sectionGuests ==
            SelectSeq(unassigned, LAMBDA u : gs[u].assignedSection = currentSection)
    IN  IF Len(sectionGuests) > 0 THEN sectionGuests ELSE unassigned

\* Candidates that fall back on the last pending guest.
guestsToAssignLast(gs, unassigned, currentSection) ==
    LET sectionGuests ==
            SelectSeq(unassigned, LAMBDA u : gs[u].assignedSection = currentSection)
    IN  IF Len(sectionGuests) > 0 THEN sectionGuests
        ELSE <<unassigned[Len(unassigned)]>>

\* guestsToAssign, lines 1984-1994: the pending guests of the current section,
\* or the first pending guest when the section has none.  unassigned is not
\* empty (line 1988).
guestsToAssign(gs, unassigned, currentSection) ==
    LET sectionGuests ==
            SelectSeq(unassigned, LAMBDA u : gs[u].assignedSection = currentSection)
    IN  IF Len(sectionGuests) > 0 THEN sectionGuests ELSE <<unassigned[1]>>

\* The section loop, lines 1980-2020.
RECURSIVE assignSections(_, _, _, _)
assignSections(st, colorOf, sectionNames, sectionIndex) ==
    IF sectionIndex >= Len(sectionNames) \/ st.unassigned = <<>>
    THEN st
    ELSE LET currentSection == sectionNames[sectionIndex + 1]
             sectionSeats == Positions([k \in 1..Len(st.seats) |->
                                           st.seats[k].section = currentSection])
             candidates == guestsToAssign(st.guests, st.unassigned, currentSection)
             seatsToAssign == Min(Len(sectionSeats), Len(candidates))
         IN  assignSections(
                 assignLoop(st, colorOf, sectionSeats, candidates, 0, seatsToAssign),
                 colorOf, sectionNames, sectionIndex + 1)

\* An assignment that clears the links and seats nobody.
assignNone(ss, gs, colorOf, sections) ==
    [seats |-> [i \in 1..Len(ss) |-> clearGuest(ss[i])],
     guests |-> [i \in 1..Len(gs) |-> [gs[i] EXCEPT !.seatId = NULL]],
     unassigned |-> [i \in 1..Len(gs) |-> i]]

\* An assignment that does not clear what the seats and guests hold.
assignOnTop(ss, gs, colorOf, sections) ==
    assignSections(
        [seats |-> ss, guests |-> gs, unassigned |-> [i \in 1..Len(gs) |-> i]],
        colorOf, [i \in 1..Len(sections) |-> sections[i].name], 0)

\* assignGuestsToSeats: the new seats.value and guests.value, and the local
\* unassignedGuests (as positions in guests) that line 2023 reports.
assignGuestsToSeats(ss, gs, colorOf, sections) ==
    assignSections(
        [seats |-> [i \in 1..Len(ss) |-> clearGuest(ss[i])],
         guests |-> [i \in 1..Len(gs) |-> [gs[i] EXCEPT !.seatId = NULL]],
         unassigned |-> [i \in 1..Len(gs) |-> i]],
        colorOf, [i \in 1..Len(sections) |-> sections[i].name], 0)

-----------------------------------------------------------------------------
(* Swap: swapGuestSeats, lines 2161-2201 *)

\* A swap that forgets the guests' own record of their seat.
relinkNone(gs, guestId, newSeatId) == gs

\* guests.find(g => g.id === id), then guest.seatId = seat id (lines 2190-2198)
relink(gs, guestId, newSeatId) ==
    LET found == Positions([k \in 1..Len(gs) |-> gs[k].id = guestId])
    IN  IF Falsy(guestId) \/ found = <<>> THEN gs
        ELSE [gs EXCEPT ![found[1]].seatId = newSeatId]

\* A swap that copies the target's linkage onto the source and keeps the target.
swapOneWay(ss, gs, sourceId, targetId) ==
    LET source == Positions([k \in 1..Len(ss) |-> ss[k].id = sourceId])
        target == Positions([k \in 1..Len(ss) |-> ss[k].id = targetId])
    IN  IF source = <<>> \/ target = <<>>
        THEN [seats |-> ss, guests |-> gs]
        ELSE [seats |-> [ss EXCEPT ![source[1]].guestId = ss[target[1]].guestId,
                                   ![source[1]].guestNumber = ss[target[1]].guestNumber,
                                   ![source[1]].guestName = ss[target[1]].guestName,
                                   ![source[1]].guestUnit = ss[target[1]].guestUnit,
                                   ![source[1]].assignedSection = ss[target[1]].assignedSection,
                                   ![source[1]].sectionColor = ss[target[1]].sectionColor],
              guests |-> relink(gs, ss[target[1]].guestId, sourceId)]

\* A swap that takes a missing source seat for an empty one.
swapMissingSourceAsEmpty(ss, gs, sourceId, targetId) ==
    LET source == Positions([k \in 1..Len(ss) |-> ss[k].id = sourceId])
        target == Positions([k \in 1..Len(ss) |-> ss[k].id = targetId])
    IN  IF target = <<>>
        THEN [seats |-> ss, guests |-> gs]
        ELSE IF source = <<>>
        THEN [seats |-> [ss EXCEPT ![target[1]] = clearGuest(ss[target[1]])],
              guests |-> gs]
        ELSE LET si == source[1]
                 ti == target[1]
                 exchanged == [k \in 1..Len(ss) |->
                                  IF k = si THEN [clearGuest(ss[si]) EXCEPT
                                                     !.guestId = ss[ti].guestId,
                                                     !.guestNumber = ss[ti].guestNumber,
                                                     !.guestName = ss[ti].guestName,
                                                     !.guestUnit = ss[ti].guestUnit,
                                                     !.assignedSection = ss[ti].assignedSection,
                                                     !.sectionColor = ss[ti].sectionColor]
                                  ELSE IF k = ti THEN [clearGuest(ss[ti]) EXCEPT
                                                     !.guestId = ss[si].guestId,
                                                     !.guestNumber = ss[si].guestNumber,
                                                     !.guestName = ss[si].guestName,
                                                     !.guestUnit = ss[si].guestUnit,
                                                     !.assignedSection = ss[si].assignedSection,
                                                     !.sectionColor = ss[si].sectionColor]
                                  ELSE ss[k]]
             IN  [seats |-> exchanged,
                  guests |-> relink(relink(gs, exchanged[si].guestId, exchanged[si].id),
                                    exchanged[ti].guestId, exchanged[ti].id)]

\* A swap that leaves the section colours on the seats.
swapKeepsColor(ss, gs, sourceId, targetId) ==
    LET source == Positions([k \in 1..Len(ss) |-> ss[k].id = sourceId])
        target == Positions([k \in 1..Len(ss) |-> ss[k].id = targetId])
    IN  IF source = <<>> \/ target = <<>>
        THEN [seats |-> ss, guests |-> gs]
        ELSE LET si == source[1]
                 ti == target[1]
                 exchanged == [k \in 1..Len(ss) |->
                                  IF k = si THEN [ss[si] EXCEPT
                                                     !.guestId = ss[ti].guestId,
                                                     !.guestNumber = ss[ti].guestNumber,
                                                     !.guestName = ss[ti].guestName,
                                                     !.guestUnit = ss[ti].guestUnit,
                                                     !.assignedSection = ss[ti].assignedSection]
                                  ELSE IF k = ti THEN [ss[ti] EXCEPT
                                                     !.guestId = ss[si].guestId,
                                                     !.guestNumber = ss[si].guestNumber,
                                                     !.guestName = ss[si].guestName,
                                                     !.guestUnit = ss[si].guestUnit,
                                                     !.assignedSection = ss[si].assignedSection]
                                  ELSE ss[k]]
             IN  [seats |-> exchanged,
                  guests |-> relink(relink(gs, exchanged[si].guestId, exchanged[si].id),
                                    exchanged[ti].guestId, exchanged[ti].id)]

swapGuestSeats(ss, gs, sourceId, targetId) ==
    LET source == Positions([k \in 1..Len(ss) |-> ss[k].id = sourceId])
        target == Positions([k \in 1..Len(ss) |-> ss[k].id = targetId])
    IN  IF source = <<>> \/ target = <<>>
        THEN [seats |-> ss, guests |-> gs]
        ELSE LET si == source[1]
                 ti == target[1]
                 temp == ss[si]
                 \* lines 2175-2180
                 s1 == [ss EXCEPT ![si].guestId = ss[ti].guestId,
                                  ![si].guestNumber = ss[ti].guestNumber,
                                  ![si].guestName = ss[ti].guestName,
                                  ![si].guestUnit = ss[ti].guestUnit,
                                  ![si].assignedSection = ss[ti].assignedSection,
                                  ![si].sectionColor = ss[ti].sectionColor]
                 \* lines 2182-2187
                 s2 == [s1 EXCEPT ![ti].guestId = temp.guestId,
                                  ![ti].guestNumber = temp.guestNumber,
                                  ![ti].guestName = temp.guestName,
                                  ![ti].guestUnit = temp.guestUnit,
                                  ![ti].assignedSection = temp.assignedSection,
                                  ![ti].sectionColor = temp.sectionColor]
                 g1 == relink(gs, s2[si].guestId, s2[si].id)
                 g2 == relink(g1, s2[ti].guestId, s2[ti].id)
             IN  [seats |-> s2, guests |-> g2]


-----------------------------------------------------------------------------
(* Bounds of the model *)

MaxSections == 2     \* sections the panel holds at most
MaxRows == 2         \* largest row count typed into a section
MaxSeats == 3        \* a configuration change is followed while the layout has at most this many seats
MaxGuests == 1       \* rows of an imported sheet
MaxPan == 1          \* pan steps to the right of the centred view
MaxZoom == 1         \* wheel notches above the zoom of 1.0

\* Right wall distances typed into a section (metres): with the room and the
\* seats below they leave room for two seats, one seat, or none.
WallDistances == {1300, 1600}

\* Right wall distances and block sizes typed into a section when the layout
\* is studied on its own: rows of four seats, of two seats spread over the
\* width, of one seat, or empty; in one block or split by an aisle.
LayoutWallDistances == {0, 800, 1300, 1600}

BlockSizes == {2, 10}

MaxLayoutSeats == 4  \* as MaxSeats, when the layout is studied on its own
MaxRoster == 3       \* as MaxGuests, when the roster is studied on its own
MaxSeated == 2       \* as MaxGuests, when rosters, swaps and clearing are studied together
MaxReads == 2        \* files being read at the same time
MaxSubmits == 2      \* loading indicators the popup makes
MaxRuns == 2         \* times the layer script is loaded
MaxRead == 1         \* as MaxGuests, when files are read at the same time

\* The section names of the rosters studied on their own: the two the panel
\* gives, and one that no section carries.
RosterSections == {"Zone1", "Zone2", "Zone9"}

PanStep == 5 * FP

-----------------------------------------------------------------------------
(* Configuration panel: ConfigurationPanel.vue *)

\* addSeatSection, lines 78-95: the pushed section
newSection(sections) ==
    LET lastSection == sections[Len(sections)]
    IN  [id |-> Len(sections) + 1,
         name |-> "Zone" \o ToString(Len(sections) + 1),
         leftWallDistance |-> lastSection.leftWallDistance,
         rightWallDistance |-> lastSection.rightWallDistance,
         previousSectionDistance |-> 1 * FP,
         rows |-> 5,
         maxContinuousSeats |-> 10,
         seatLeftRightSpacing |-> 0,
         seatFrontBackSpacing |-> 1 * FP,
         seatLength |-> FP \div 2,
         seatWidth |-> FP \div 2,
         aisleWidth |-> (12 * FP) \div 10]

\* removeSeatSection, lines 110-114: splice(index, 1), index 0-based
removeSection(sections, index) ==
    IF Len(sections) > 1
    THEN [i \in 1..(Len(sections) - 1) |->
             IF i <= index THEN sections[i] ELSE sections[i + 1]]
    ELSE sections

-----------------------------------------------------------------------------
(* The venue the model starts from: a room of 3 m by 3 m without a stage and  *)
(* one section of one row, 0.7 m wide (the defaults of the source, 15 m by 20 *)
(* m with five rows of ten seats, edited down in the panel and saved).        *)

SmallRoom == [width |-> 3 * FP, length |-> 3 * FP]

NoStage == [exists |-> FALSE, width |-> 1 * FP, length |-> FP \div 2]

FirstSection ==
    [id |-> 1, name |-> "Zone1",
     leftWallDistance |-> 1 * FP, rightWallDistance |-> 1300,
     previousSectionDistance |-> FP \div 5,
     rows |-> 1, maxContinuousSeats |-> 10,
     seatLeftRightSpacing |-> 0, seatFrontBackSpacing |-> FP \div 10,
     seatLength |-> FP \div 2, seatWidth |-> FP \div 2,
     aisleWidth |-> FP \div 2]

-----------------------------------------------------------------------------
(* Handlers of FloorPlan.vue *)

\* generateSeats for the given props and viewport: seats.value = newSeats.
\* An id absent from existingSeatsMap takes one outcome of Math.random() > 0.7;
\* the outcome touches nothing but that seat's occupied flag, so the layout is
\* computed once and the outcomes are put on the seats created anew.  (The
\* layout is bound by a quantifier over a singleton so that it is evaluated
\* once per step.)
Rebuilt(layout) ==
    \E fresh \in {{i \in 1..Len(layout) :
                     \A j \in 1..Len(seats) : seats[j].id # layout[i].id}} :
    \E random \in [fresh -> BOOLEAN] :
        seats' = [i \in 1..Len(layout) |->
                     IF i \in fresh THEN [layout[i] EXCEPT !.occupied = random[i]]
                     ELSE layout[i]]

Rebuild(room, stage, sections, z, ox, oy) ==
    \E layout \in {generateSeats(seats, <<>>, room, stage, sections, z, ox, oy)} :
        Rebuilt(layout)

\* watch(props, generateSeats), lines 934-940, after a change of the sections.
\* The change is followed while the new layout has at most cap seats.
SectionsChanged(sections, cap) ==
    \E layout \in {generateSeats(seats, <<>>, roomSettings, stageSettings,
                                  sections, zoom, offsetX, offsetY)} :
        /\ Len(layout) <= cap
        /\ seatSections' = sections
        /\ Rebuilt(layout)
        /\ UNCHANGED <<reading, beside, roomSettings, stageSettings, viewport, guests, sectionColors,
                       dragState, isDragging>>


\* The panel's "add section" button; the watch rebuilds the layout.
addSeatSection(cap) ==
    /\ Len(seatSections) < MaxSections
    /\ SectionsChanged(Append(seatSections, newSection(seatSections)), cap)

\* The panel's "delete" button of section index (shown while there are two).
removeSeatSection(cap) ==
    \E index \in 0..(Len(seatSections) - 1) :
        /\ Len(seatSections) > 1
        /\ SectionsChanged(removeSection(seatSections, index), cap)

\* v-model.number="section.rows", ConfigurationPanel.vue line 247
setRows(cap) ==
    \E i \in 1..Len(seatSections), r \in 1..MaxRows :
        /\ r # seatSections[i].rows
        /\ SectionsChanged([seatSections EXCEPT ![i].rows = r], cap)

\* v-model.number="section.rightWallDistance", ConfigurationPanel.vue line 236
setRightWallDistance(cap, distances) ==
    \E i \in 1..Len(seatSections), d \in distances :
        /\ d # seatSections[i].rightWallDistance
        /\ SectionsChanged([seatSections EXCEPT ![i].rightWallDistance = d], cap)

\* v-model.number="section.maxContinuousSeats", ConfigurationPanel.vue line 251
setMaxContinuousSeats(cap) ==
    \E i \in 1..Len(seatSections), n \in BlockSizes :
        /\ n # seatSections[i].maxContinuousSeats
        /\ SectionsChanged([seatSections EXCEPT ![i].maxContinuousSeats = n], cap)

\* The "regenerate" button and the window's resize listener (lines 926-929).
regenerate ==
    /\ Rebuild(roomSettings, stageSettings, seatSections, zoom, offsetX, offsetY)
    /\ UNCHANGED <<reading, beside, config, viewport, guests, sectionColors, dragState, isDragging>>

\* resetZoomAndPan, lines 1844-1849
resetZoomAndPan ==
    /\ zoom' = FP
    /\ offsetX' = 0
    /\ offsetY' = 0
    /\ Rebuild(roomSettings, stageSettings, seatSections, FP, 0, 0)
    /\ UNCHANGED <<reading, beside, config, guests, sectionColors, dragState, isDragging>>

\* resetSeats, lines 1607-1621
resetSeats ==
    /\ seats' = [i \in 1..Len(seats) |-> [clearGuest(seats[i]) EXCEPT !.occupied = FALSE]]
    /\ guests' = <<>>
    /\ sectionColors' = generateSectionColors(<<>>)
    /\ UNCHANGED <<reading, beside, config, viewport, dragState, isDragging>>

\* randomizeSeats, lines 1627-1632: one Math.random() > 0.5 per seat
randomizeSeats ==
    \E random \in [1..Len(seats) -> BOOLEAN] :
        /\ seats' = [i \in 1..Len(seats) |-> [seats[i] EXCEPT !.occupied = random[i]]]
        /\ UNCHANGED <<reading, beside, config, viewport, guests, sectionColors, dragState, isDragging>>

\* handleWheel, lines 1639-1685, with the pointer on the corner of the room
\* (world coordinates 0, 0): one notch of 0.1 up or down, clamped to 0.5..3.0,
\* the offsets re-centred on the pointer, and the layout rebuilt.  MaxZoom
\* bounds the notches followed above 1.0.
handleWheel ==
    \E delta \in {0 - FP \div 10, FP \div 10} :
        LET newZoom == Max(FP \div 2, Min(3 * FP, zoom + delta))
            mouseX == baseOffsetX(roomSettings) + offsetX
            mouseY == baseOffsetY(roomSettings) + offsetY
            worldX == Div(mouseX - baseOffsetX(roomSettings) - offsetX,
                          Mul(baseScale(roomSettings), zoom))
            worldY == Div(mouseY - baseOffsetY(roomSettings) - offsetY,
                          Mul(baseScale(roomSettings), zoom))
            newOffsetX == mouseX - baseOffsetX(roomSettings)
                          - Mul(worldX, Mul(baseScale(roomSettings), newZoom))
            newOffsetY == mouseY - baseOffsetY(roomSettings)
                          - Mul(worldY, Mul(baseScale(roomSettings), newZoom))
        IN  /\ newZoom >= FP
            /\ newZoom <= FP + MaxZoom * (FP \div 10)
            /\ zoom' = newZoom
            /\ offsetX' = newOffsetX
            /\ offsetY' = newOffsetY
            /\ Rebuild(roomSettings, stageSettings, seatSections, newZoom,
                       newOffsetX, newOffsetY)
            /\ UNCHANGED <<reading, beside, config, guests, sectionColors, dragState, isDragging>>

\* handleMouseDown, lines 1691-1728, with Shift on the seat at position i: a
\* seat that holds a guest becomes the drag source.  (Without Shift the click
\* only moves the selection highlight, which the model leaves out.)
handleMouseDownSeat ==
    \E i \in 1..Len(seats) :
        /\ ~Falsy(seats[i].guestId)
        /\ dragSourceSeatId' = seats[i].id
        /\ isDraggingSeat' = TRUE
        /\ UNCHANGED <<reading, beside, config, viewport, seats, guests, sectionColors, isDragging>>

\* handleMouseDown on no seat: the canvas drag starts.
handleMouseDownCanvas ==
    /\ isDragging' = TRUE
    /\ UNCHANGED <<reading, beside, config, viewport, seats, guests, sectionColors, dragState>>

\* handleMouseMove, lines 1735-1767, while the canvas is dragged: the offsets
\* move by the pointer's delta and the layout is rebuilt.  The pointer moves
\* one PanStep left or right; MaxPan bounds the distance from the centre.
handleMouseMove ==
    \E deltaX \in {PanStep, 0 - PanStep} :
        /\ isDragging
        /\ offsetX + deltaX >= 0 /\ offsetX + deltaX <= MaxPan * PanStep
        /\ offsetX' = offsetX + deltaX
        /\ Rebuild(roomSettings, stageSettings, seatSections, zoom,
                   offsetX + deltaX, offsetY)
        /\ UNCHANGED <<reading, beside, config, zoom, offsetY, guests, sectionColors, dragState,
                       isDragging>>

\* handleMouseUp, lines 1773-1838, with the pointer on the seat at position
\* target (0: on no seat).  Lines 1796-1826 are the body of swapGuestSeats.
\* The pointer may be anywhere when the button is released.
handleMouseUpOn(target) ==
    \E swapped \in {IF target # 0 /\ seats[target].id # dragSourceSeatId
                    THEN swapGuestSeats(seats, guests, dragSourceSeatId,
                                        seats[target].id)
                    ELSE [seats |-> seats, guests |-> guests]} :
        /\ IF isDraggingSeat /\ ~Falsy(dragSourceSeatId)
           THEN /\ seats' = swapped.seats
                /\ guests' = swapped.guests
                /\ isDraggingSeat' = FALSE
                /\ dragSourceSeatId' = NULL
           ELSE UNCHANGED <<seats, guests, dragState>>
        /\ isDragging' = FALSE
        /\ UNCHANGED <<reading, beside, config, viewport, sectionColors>>

handleMouseUp == \E target \in 0..Len(seats) : handleMouseUpOn(target)

\* A read whose roster is added to the guests there are.
rosterReadAdded(file) ==
    \E parsed \in {parseExcelData(file)} :
    \E both \in {guests \o parsed.data} :
    \E colorOf \in {generateSectionColors(both)} :
    \E assigned \in {assignGuestsToSeats(seats, both, colorOf, seatSections)} :
        /\ IF parsed.resolved
           THEN /\ guests' = assigned.guests
                /\ sectionColors' = colorOf
                /\ seats' = assigned.seats
           ELSE UNCHANGED <<seats, guests, sectionColors>>
        /\ UNCHANGED <<beside, config, viewport, dragState, isDragging>>


\* handleFileUpload from the end of the file's read on, lines 1860-1868 (the
\* continuation of the await and, for a rejected promise, the catch): the
\* roster replaces guests.value, the colour map is rebuilt and the guests are
\* assigned; a rejected read changes nothing.
rosterRead(file) ==
    \E parsed \in {parseExcelData(file)} :
    \E colorOf \in {generateSectionColors(parsed.data)} :
    \E assigned \in {assignGuestsToSeats(seats, parsed.data, colorOf, seatSections)} :
        /\ IF parsed.resolved
           THEN /\ guests' = assigned.guests
                /\ sectionColors' = colorOf
                /\ seats' = assigned.seats
           ELSE UNCHANGED <<seats, guests, sectionColors>>
        /\ UNCHANGED <<beside, config, viewport, dragState, isDragging>>

\* handleFileUpload, lines 1855-1872, with a file that is read before any
\* other handler runs (no state changes before the end of the read).
handleFileUpload(file) ==
    /\ rosterRead(file)
    /\ UNCHANGED reading

\* handleFileUpload up to its await, lines 1855-1860 and 1900: the FileReader
\* of the chosen file starts reading.
handleFileChosen(file) ==
    /\ reading' = Append(reading, file)
    /\ UNCHANGED <<beside, config, viewport, seats, guests, sectionColors,
                   dragState, isDragging>>

\* reader.onload or reader.onerror of one of the files being read, lines
\* 1883-1898, and the continuation of its handleFileUpload.  The readers
\* finish in any order.
readerFired ==
    \E k \in 1..Len(reading) :
        /\ rosterRead(reading[k])
        /\ reading' = [i \in 1..(Len(reading) - 1) |->
                          IF i < k THEN reading[i] ELSE reading[i + 1]]

-----------------------------------------------------------------------------
(* The layer script: 11111.js, lines 56-115 (the file holds the script       *)
(* twice; the second copy is the one that reads deletedLayerID with          *)
(* includes)                                                                 *)
(*                                                                           *)
(* layer.pc is the line of the await at which x is suspended; layer.reply is *)
(* empty until the scene has served the awaited call and then holds its      *)
(* result (re, res and re93 keep the results of lines 58, 86 and 93).  A     *)
(* call of App.Scene returns a promise: the scene serves it                  *)
(* later, and x goes on when the result has arrived.  GetByCustomId and Add  *)
(* may report success: false, which the script tests; the result of Delete   *)
(* is never looked at.  layer.runs counts the times the script was loaded.   *)

planner == <<roomSettings, stageSettings, seatSections, zoom, offsetX, offsetY,
             seats, guests, sectionColors, isDragging, isDraggingSeat,
             dragSourceSeatId, reading>>

layerId == "my-geolayer-id"

\* Before the script is loaded.
scriptNotRun ==
    [pc |-> "not run", reply |-> <<>>, re |-> <<>>, res |-> <<>>, re93 |-> <<>>,
     deletedLayerID |-> <<>>, timer |-> FALSE, deleting |-> 0, scene |-> {},
     runs |-> 0]

\* The script loaded, lines 56 and 103-115: x has run up to its first await
\* and the timer is set.  present: the custom ids the scene holds.
scriptLoaded(present) ==
    [scriptNotRun EXCEPT !.pc = "58", !.timer = TRUE, !.scene = present, !.runs = 1]

\* The script is loaded once more when x has ended and the timer has fired:
\* deletedLayerID is empty again, the scene is as the run before left it, and
\* a Delete the scene has not served yet is still to come.
scriptRuns ==
    /\ layer.pc = "done"
    /\ ~layer.timer
    /\ layer.runs < MaxRuns
    /\ layer' = [scriptLoaded(layer.scene) EXCEPT !.runs = layer.runs + 1,
                                                 !.deleting = layer.deleting]
    /\ UNCHANGED <<planner, popup>>

\* The scene serves the call x awaits.  GetByCustomId (lines 58, 93) answers
\* with the objects of that id, Delete (line 60) removes the object, Add
\* (line 86) puts the layer into the scene.
sceneServes ==
    /\ layer.pc \in {"58", "60", "86", "93"}
    /\ layer.reply = <<>>
    /\ \E success \in BOOLEAN :
           layer' =
               CASE layer.pc \in {"58", "93"} ->
                        [layer EXCEPT !.reply =
                            <<[success |-> success,
                               result |-> IF success /\ layerId \in layer.scene
                                          THEN <<layerId>> ELSE <<>>]>>]
                 [] layer.pc = "60" ->
                        [layer EXCEPT !.reply = <<[success |-> TRUE, result |-> <<>>]>>,
                                      !.scene = layer.scene \ {layerId}]
                 [] layer.pc = "86" ->
                        [layer EXCEPT !.reply = <<[success |-> success, result |-> <<>>]>>,
                                      !.scene = IF success THEN layer.scene \cup {layerId}
                                                ELSE layer.scene]
    /\ UNCHANGED <<planner, popup>>

\* x goes on from its await to the next one or to its end, lines 58-100.
xResumes ==
    /\ layer.pc \in {"58", "60", "86", "93"}
    /\ layer.reply # <<>>
    /\ LET got == layer.reply[1]
           found == got.success /\ Len(got.result) > 0
       IN  layer' =
               CASE layer.pc = "58" ->                          \* lines 58-60, 86
                        [layer EXCEPT !.re = <<got>>, !.reply = <<>>,
                                      !.pc = IF found THEN "60" ELSE "86"]
                 [] layer.pc = "60" ->                          \* lines 60-86
                        [layer EXCEPT !.reply = <<>>, !.pc = "86"]
                 [] layer.pc = "86" ->                          \* lines 86-93
                        [layer EXCEPT !.res = <<got>>, !.reply = <<>>,
                                      !.pc = IF got.success
                                                /\ \E i \in 1..Len(layer.deletedLayerID) :
                                                       layer.deletedLayerID[i] = layerId
                                             THEN "93" ELSE "done"]
                 [] layer.pc = "93" ->                          \* lines 93-98
                        [layer EXCEPT !.re93 = <<got>>, !.reply = <<>>, !.pc = "done",
                                      !.deleting = IF found THEN layer.deleting + 1
                                                   ELSE layer.deleting]
    /\ UNCHANGED <<planner, popup>>

\* The timer's callback, lines 106-115.  re is the promise that GetByCustomId
\* returns (the call is not awaited), so re.success is undefined and the else
\* branch records the id.
timerFires ==
    /\ layer.timer
    /\ layer' = [layer EXCEPT !.timer = FALSE,
                              !.deletedLayerID = Append(layer.deletedLayerID, layerId)]
    /\ UNCHANGED <<planner, popup>>

\* The scene serves the Delete of line 96, which x did not wait for.
sceneDeletes ==
    /\ layer.deleting > 0
    /\ layer' = [layer EXCEPT !.deleting = layer.deleting - 1,
                              !.scene = layer.scene \ {layerId}]
    /\ UNCHANGED <<planner, popup>>

-----------------------------------------------------------------------------
(* The render-config popup: index.vue, lines 1-67.  Texts are sequences of   *)
(* characters.  popup.shown is the set of loading indicators on the screen,  *)
(* numbered in the order createLoading made them, and popup.loading the      *)
(* number of the one the variable loading refers to (0: null).               *)
(* popup.emitted and popup.message are what the last handler emitted and     *)
(* the error message it put up.                                              *)

RECURSIVE trimStart(_)
trimStart(text) ==
    IF text # <<>> /\ Head(text) = " " THEN trimStart(Tail(text)) ELSE text

RECURSIVE trimEnd(_)
trimEnd(text) ==
    IF text # <<>> /\ text[Len(text)] = " "
    THEN trimEnd(SubSeq(text, 1, Len(text) - 1)) ELSE text

\* String.prototype.trim, line 37
trim(text) == trimEnd(trimStart(text))

\* What is typed into a field: nothing, a blank, a word, a word in blanks.
Texts == {<<>>, <<" ">>, <<"u">>, <<" ", "u", " ">>}

\* The component set up, lines 12-29, with or without props.initialConfig
\* (given: a sequence of at most one config).  visible defaults to false.
popupSetUp(given) ==
    [visible |-> FALSE,
     initialConfig |-> given,
     formData |-> [sceneUrl |-> <<>>, sceneOrder |-> <<>>],
     loading |-> 0,
     created |-> 0,
     shown |-> {},
     rendering |-> 0,
     listeners |-> 0,
     starting |-> 0,
     emitted |-> <<>>,
     message |-> NULL]

\* loading?.close(), lines 54, 58 and 62
closeLoading(p) == [p EXCEPT !.shown = p.shown \ {p.loading}]

\* The parent shows the popup (v-model:visible); the watch of lines 24-29
\* copies props.initialConfig into the form.
popupShown ==
    /\ ~popup.visible
    /\ popup' = [popup EXCEPT !.visible = TRUE,
                              !.formData = IF popup.initialConfig # <<>>
                                           THEN popup.initialConfig[1]
                                           ELSE popup.formData,
                              !.emitted = <<>>, !.message = NULL]
    /\ UNCHANGED <<planner, layer>>

\* v-model:value of the two inputs, lines 78 and 87
popupInput ==
    \E url \in Texts, order \in Texts :
        /\ popup.visible
        /\ [sceneUrl |-> url, sceneOrder |-> order] # popup.formData
        /\ popup' = [popup EXCEPT !.formData = [sceneUrl |-> url, sceneOrder |-> order],
                                  !.emitted = <<>>, !.message = NULL]
        /\ UNCHANGED <<planner, layer>>

\* handleClose, lines 31-34 (the cancel button and the popup's own close)
handleClose ==
    /\ popup.visible
    /\ popup' = [popup EXCEPT !.visible = FALSE, !.emitted = <<"close">>,
                              !.message = NULL]
    /\ UNCHANGED <<planner, layer>>

\* handleSubmit up to its await, lines 36-49: the popup after the click.
submitted(p) ==
    IF trim(p.formData.sceneUrl) = <<>> \/ trim(p.formData.sceneOrder) = <<>>
    THEN [p EXCEPT !.emitted = <<>>, !.message = "fill in the address and the order"]
    ELSE [p EXCEPT !.visible = FALSE,
                   !.emitted = <<[sceneUrl |-> p.formData.sceneUrl,
                                  sceneOrder |-> p.formData.sceneOrder]>>,
                   !.message = NULL,
                   !.created = p.created + 1,
                   !.loading = p.created + 1,
                   !.shown = p.shown \cup {p.created + 1},
                   !.rendering = p.rendering + 1]

\* The click on the submit button; MaxSubmits bounds the indicators made.
handleSubmit ==
    /\ popup.visible
    /\ popup.created < MaxSubmits
    /\ popup' = submitted(popup)
    /\ UNCHANGED <<planner, layer>>

\* wdpMap.render resolves and handleSubmit goes on, lines 49-59: the two
\* callbacks are registered and the scene starts.
renderResolves ==
    /\ popup.rendering > 0
    /\ popup' = [popup EXCEPT !.rendering = popup.rendering - 1,
                              !.listeners = popup.listeners + 1,
                              !.starting = popup.starting + 1,
                              !.emitted = <<>>, !.message = NULL]
    /\ UNCHANGED <<planner, layer>>

\* wdpMap.render throws, lines 61-65
renderThrows ==
    /\ popup.rendering > 0
    /\ popup' = [closeLoading(popup) EXCEPT !.rendering = popup.rendering - 1,
                                            !.emitted = <<>>,
                                            !.message = "the scene failed to load"]
    /\ UNCHANGED <<planner, layer>>

\* A started scene reports created or error: the callbacks of lines 53-59
\* run, and each of them closes what loading refers to.
sceneReports ==
    /\ popup.starting > 0
    /\ popup' = [(IF popup.listeners > 0 THEN closeLoading(popup) ELSE popup)
                    EXCEPT !.starting = popup.starting - 1,
                           !.emitted = <<>>, !.message = NULL]
    /\ UNCHANGED <<planner, layer>>

-----------------------------------------------------------------------------
(* The planner with all its handlers, on the small venue *)

\* onMounted, lines 905-930: the first generateSeats
Mounted(room, stage, sections) ==
    /\ roomSettings = room
    /\ stageSettings = stage
    /\ seatSections = sections
    /\ zoom = FP
    /\ offsetX = 0
    /\ offsetY = 0
    /\ \E layout \in {generateSeats(<<>>, <<>>, room, stage, sections, FP, 0, 0)} :
       \E random \in [1..Len(layout) -> BOOLEAN] :
           seats = [i \in 1..Len(layout) |-> [layout[i] EXCEPT !.occupied = random[i]]]
    /\ guests = <<>>
    /\ sectionColors = generateSectionColors(<<>>)
    /\ isDragging = FALSE
    /\ isDraggingSeat = FALSE
    /\ dragSourceSeatId = NULL
    /\ reading = <<>>
    /\ layer = scriptNotRun
    /\ popup = popupSetUp(<<>>)

Init == Mounted(SmallRoom, NoStage, <<FirstSection>>)

Next ==
    \/ addSeatSection(MaxSeats)
    \/ removeSeatSection(MaxSeats)
    \/ setRows(MaxSeats)
    \/ setRightWallDistance(MaxSeats, WallDistances)
    \/ regenerate
    \/ resetZoomAndPan
    \/ resetSeats
    \/ randomizeSeats
    \/ handleMouseDownSeat
    \/ handleMouseDownCanvas
    \/ handleMouseMove
    \/ handleMouseUp
    \/ \E file \in Files(MaxGuests, Rows({"Zone1"})) : handleFileUpload(file)

Spec == Init /\ [][Next]_vars

-----------------------------------------------------------------------------
(* The layout on its own: no roster, more geometry *)

NextLayout ==
    \/ addSeatSection(MaxLayoutSeats)
    \/ removeSeatSection(MaxLayoutSeats)
    \/ setRows(MaxLayoutSeats)
    \/ setRightWallDistance(MaxLayoutSeats, LayoutWallDistances)
    \/ setMaxContinuousSeats(MaxLayoutSeats)
    \/ regenerate
    \/ handleWheel
    \/ resetZoomAndPan

SpecLayout == Init /\ [][NextLayout]_vars

-----------------------------------------------------------------------------
(* The roster on its own: imports into venues of one or two sections *)

\* The planner after "clear" (resetSeats): no guest, no seat occupied, no
\* file being read.
ClearedPlanner(room, stage, sections) ==
    /\ roomSettings = room
    /\ stageSettings = stage
    /\ seatSections = sections
    /\ zoom = FP
    /\ offsetX = 0
    /\ offsetY = 0
    /\ seats = generateSeats(<<>>, <<>>, room, stage, sections, FP, 0, 0)
    /\ guests = <<>>
    /\ sectionColors = generateSectionColors(<<>>)
    /\ isDragging = FALSE
    /\ isDraggingSeat = FALSE
    /\ dragSourceSeatId = NULL
    /\ reading = <<>>

\* A venue after "clear", the layer script and the popup not in use.
Cleared(room, stage, sections) ==
    /\ ClearedPlanner(room, stage, sections)
    /\ layer = scriptNotRun
    /\ popup = popupSetUp(<<>>)

\* Sections of one or two rows with two seats, one seat or none in a row.
VenueSections(first) ==
    {[s EXCEPT !.rows = r, !.rightWallDistance = d] :
        s \in first, r \in 1..MaxRows, d \in {1000, 1300, 1600}}

\* One section, or that section and a second one added in the panel.
Venues ==
    {<<s1>> : s1 \in VenueSections({FirstSection})}
    \cup UNION {{<<s1, s2>> : s2 \in VenueSections({newSection(<<s1>>)})} :
                    s1 \in VenueSections({FirstSection})}

InitAssign == \E sections \in Venues : Cleared(SmallRoom, NoStage, sections)

\* An import replaces the roster and every link whatever they were, so the
\* imports are followed from the cleared venue only.
NextAssign ==
    \/ \E file \in Files(MaxRoster, Rows(RosterSections)) :
           guests = <<>> /\ handleFileUpload(file)
    \/ resetSeats

SpecAssign == InitAssign /\ [][NextAssign]_vars

-----------------------------------------------------------------------------
(* Swaps on their own: one section of two rows of two seats *)

InitSwap ==
    Cleared(SmallRoom, NoStage,
            <<[FirstSection EXCEPT !.rows = 2, !.rightWallDistance = 1000]>>)

NextSwap ==
    \/ \E file \in Files(MaxRoster, Rows({"Zone1"})) : handleFileUpload(file)
    \/ handleMouseDownSeat
    \/ handleMouseUp
    \/ setRows(MaxLayoutSeats)

SpecSwap == InitSwap /\ [][NextSwap]_vars

-----------------------------------------------------------------------------
(* Row packing on its own: wide halls, from rows too narrow for a seat to    *)
(* rows of more than a hundred candidates                                    *)

\* roomSettings and stageSettings of the application (unnamed/part_000)
DefaultRoom == [width |-> 15 * FP, length |-> 20 * FP]

DefaultStage == [exists |-> TRUE, width |-> 8 * FP, length |-> 3 * FP]

\* seatSections of the application (unnamed/part_000)
DefaultSection ==
    [id |-> 1, name |-> "Zone1",
     leftWallDistance |-> 1 * FP, rightWallDistance |-> 1 * FP,
     previousSectionDistance |-> 2 * FP,
     rows |-> 5, maxContinuousSeats |-> 10,
     seatLeftRightSpacing |-> (8 * FP) \div 10, seatFrontBackSpacing |-> 1 * FP,
     seatLength |-> FP \div 2, seatWidth |-> FP \div 2,
     aisleWidth |-> (12 * FP) \div 10]

\* A hall of 64 m by 10 m typed into the panel.
Hall == [width |-> 64 * FP, length |-> 10 * FP]

\* seatLeftRightSpacing and aisleWidth typed into a section (metres)
PackSpacings == {0, 100}

PackAisles == {1200, 3000}

\* A section of one row with the wall distances, block size, seat spacing and
\* aisle width typed into the panel.
PackSection(left, right, n, sp, a) ==
    [FirstSection EXCEPT !.leftWallDistance = left, !.rightWallDistance = right,
                         !.maxContinuousSeats = n, !.seatLeftRightSpacing = sp,
                         !.aisleWidth = a]

\* In the small room: usable widths of 0 m, 0.4 m, 1 m and 2 m.
SmallSections ==
    {PackSection(1000, right, n, sp, a) :
        right \in {2000, 1600, 1000, 0}, n \in {1, 10}, sp \in PackSpacings, a \in PackAisles}

\* In the room of the application's defaults: usable widths of 5 m and 13 m.
MediumSections ==
    {PackSection(1000, right, n, sp, a) :
        right \in {9000, 1000}, n \in {1, 10}, sp \in PackSpacings, a \in PackAisles}

\* In the hall: a usable width of 37 m, and one of 61.5 m (more than a hundred
\* candidates).  Widths are held to a thousandth of a pixel, so the widest
\* rows come in blocks of ten (at most ten aisles).
HallSections ==
    {PackSection(20000, 7000, n, sp, a) :
        n \in {1, 10}, sp \in PackSpacings, a \in PackAisles}
    \cup {PackSection(1000, 1500, 10, sp, a) : sp \in PackSpacings, a \in PackAisles}

\* A first section too narrow for a seat, given two rows, and a second section
\* added in the panel and edited to two rows of 1 m.
TwoSections ==
    {<<[s1 EXCEPT !.rows = 2],
       [newSection(<<s1>>) EXCEPT !.rows = 2, !.rightWallDistance = 1000]>> :
          s1 \in {s \in SmallSections : s.rightWallDistance \in {2000, 1600}}}

\* The venue of the application's defaults with a second section added in
\* the panel and edited to two rows.
StagedSections ==
    <<DefaultSection, [newSection(<<DefaultSection>>) EXCEPT !.rows = 2]>>

PackVenues ==
    {[room |-> SmallRoom, stage |-> NoStage, sections |-> <<s>>] : s \in SmallSections}
    \cup {[room |-> SmallRoom, stage |-> NoStage, sections |-> ss] : ss \in TwoSections}
    \cup {[room |-> DefaultRoom, stage |-> NoStage, sections |-> <<s>>] : s \in MediumSections}
    \cup {[room |-> Hall, stage |-> NoStage, sections |-> <<s>>] : s \in HallSections}
    \cup {[room |-> DefaultRoom, stage |-> DefaultStage, sections |-> <<DefaultSection>>]}
    \cup {[room |-> DefaultRoom, stage |-> DefaultStage, sections |-> StagedSections]}

InitPack == \E venue \in PackVenues : Cleared(venue.room, venue.stage, venue.sections)

NextPack ==
    \/ regenerate
    \/ handleMouseDownCanvas
    \/ handleMouseMove
    \/ handleMouseUp

SpecPack == InitPack /\ [][NextPack]_vars

-----------------------------------------------------------------------------
(* Rosters, swaps, clearing and rebuilds together: two sections, guests of   *)
(* both and of neither                                                       *)

\* A first section of one row of two seats and a second section, added in the
\* panel and edited to one row of one seat.
SeatingSections ==
    <<[FirstSection EXCEPT !.rightWallDistance = 1000],
      [newSection(<<FirstSection>>) EXCEPT !.rows = 1, !.rightWallDistance = 1300]>>

InitSeating == Cleared(SmallRoom, NoStage, SeatingSections)

\* As in NextAssign, the imports are followed from the cleared venue, which
\* "clear" gives from every state.
NextSeating ==
    \/ \E file \in Files(MaxSeated, Rows({"Zone1", "Zone2"})) :
           guests = <<>> /\ handleFileUpload(file)
    \/ handleMouseDownSeat
    \/ handleMouseUp
    \/ setRightWallDistance(MaxSeats, WallDistances)
    \/ resetSeats

SpecSeating == InitSeating /\ [][NextSeating]_vars

-----------------------------------------------------------------------------
(* Overlapping imports: files chosen while others are still being read, with *)
(* swaps and rebuilds in between                                             *)

ImportFiles == Files(MaxRead, Rows({"Zone1", "Zone2"}))

NextImport ==
    \/ \E file \in ImportFiles : Len(reading) < MaxReads /\ handleFileChosen(file)
    \/ readerFired
    \/ handleMouseDownSeat
    \/ handleMouseUp
    \/ setRightWallDistance(MaxSeats, WallDistances)

SpecImport == InitSeating /\ [][NextImport]_vars

-----------------------------------------------------------------------------
(* The layer script on its own.  The scene serves every call, a result that  *)
(* has arrived lets x go on, and the timer fires: weak fairness of each.     *)
(* Loading the script once more is under no fairness.                        *)

InitLayer ==
    \E present \in SUBSET {layerId} :
        /\ ClearedPlanner(SmallRoom, NoStage, <<FirstSection>>)
        /\ layer = scriptLoaded(present)
        /\ popup = popupSetUp(<<>>)

NextLayer ==
    \/ sceneServes
    \/ xResumes
    \/ timerFires
    \/ sceneDeletes
    \/ scriptRuns

SpecLayer ==
    /\ InitLayer /\ [][NextLayer]_vars
    /\ WF_vars(sceneServes) /\ WF_vars(xResumes)
    /\ WF_vars(timerFires) /\ WF_vars(sceneDeletes)

-----------------------------------------------------------------------------
(* The popup on its own.  A render that was started resolves or throws and   *)
(* a scene that was started reports created or error: weak fairness of       *)
(* both.  What the user and the parent do is under no fairness.              *)

InitPopup ==
    \E given \in {<<>>, <<[sceneUrl |-> <<"u">>, sceneOrder |-> <<"u">>]>>} :
        /\ ClearedPlanner(SmallRoom, NoStage, <<FirstSection>>)
        /\ layer = scriptNotRun
        /\ popup = popupSetUp(given)

NextPopup ==
    \/ popupShown
    \/ popupInput
    \/ handleClose
    \/ handleSubmit
    \/ renderResolves
    \/ renderThrows
    \/ sceneReports

SpecPopup ==
    /\ InitPopup /\ [][NextPopup]_vars
    /\ WF_vars(renderResolves \/ renderThrows) /\ WF_vars(sceneReports)

-----------------------------------------------------------------------------
(* Properties *)

SeatIds(ss) == {ss[i].id : i \in 1..Len(ss)}

\* The guest linkage of a seat, and the linkage of a seat without a guest.
Linkage(seat) ==
    <<seat.guestId, seat.guestNumber, seat.guestName, seat.guestUnit,
      seat.assignedSection, seat.sectionColor>>

NoLinkage == <<NULL, NULL, NULL, NULL, NULL, NULL>>

\* The state a rebuild carries over from an old seat.
CarriedState(seat) == <<seat.occupied, seat.vip, Linkage(seat), seat.isSelected>>

\* A step that changes the sections or the viewport: the steps of the handlers
\* that rebuild the layout (a rebuild for unchanged props and viewport yields
\* the seats it started from).
RebuildStep == seatSections' # seatSections \/ viewport' # viewport

\* C1: in every reachable state the links of seats and guests agree: a seat
\* names a guest exactly when that guest names the seat.
LinksAgree ==
    /\ \A i \in 1..Len(seats), j \in 1..Len(guests) :
           (seats[i].guestId = guests[j].id) <=> (guests[j].seatId = seats[i].id)
    /\ \A j \in 1..Len(guests) :
           guests[j].seatId # NULL => guests[j].seatId \in SeatIds(seats)

\* C2: a rebuild leaves occupied, vip, the guest linkage and isSelected as
\* they were on every seat whose id is in the layout before and after it.
RebuildKeepsState ==
    [][RebuildStep =>
          \A i \in 1..Len(seats), j \in 1..Len(seats') :
              seats'[j].id = seats[i].id
                  => CarriedState(seats'[j]) = CarriedState(seats[i])]_vars

\* A seat holds a guest, linked both ways, in a layout of two sections that
\* has been panned.
KeptGuestAfterRebuild ==
    /\ Len(seatSections) = 2
    /\ offsetX = PanStep
    /\ \E i \in 1..Len(seats), j \in 1..Len(guests) :
           /\ seats[i].guestId = guests[j].id
           /\ guests[j].seatId = seats[i].id
           /\ seats[i].occupied

\* A seat with the linkage of another seat put on it.
WithLinkage(seat, other) ==
    [seat EXCEPT !.guestId = other.guestId, !.guestNumber = other.guestNumber,
                 !.guestName = other.guestName, !.guestUnit = other.guestUnit,
                 !.assignedSection = other.assignedSection,
                 !.sectionColor = other.sectionColor]

\* C3: a swap of two distinct seats of the layout gives each seat the guest
\* linkage the other had (an empty linkage included), makes every guest that
\* a swapped seat now holds name that seat, and changes nothing else: not the
\* occupied flag or geometry of the two seats, no other seat, no other guest.
SwapExchangesLinkage ==
    \A a \in 1..Len(seats), b \in 1..Len(seats) :
        a # b =>
            LET swapped == swapGuestSeats(seats, guests, seats[a].id, seats[b].id)
            IN  /\ swapped.seats =
                       [k \in 1..Len(seats) |->
                           IF k = a THEN WithLinkage(seats[a], seats[b])
                           ELSE IF k = b THEN WithLinkage(seats[b], seats[a])
                           ELSE seats[k]]
                /\ swapped.guests =
                       [j \in 1..Len(guests) |->
                           IF guests[j].id = seats[b].guestId
                           THEN [guests[j] EXCEPT !.seatId = seats[a].id]
                           ELSE IF guests[j].id = seats[a].guestId
                           THEN [guests[j] EXCEPT !.seatId = seats[b].id]
                           ELSE guests[j]]

\* The first two guests of the roster sit on each other's seats of the import.
GuestsSwapped ==
    /\ Len(seats) >= 2
    /\ Len(guests) >= 2
    /\ seats[1].guestId = guests[2].id
    /\ seats[2].guestId = guests[1].id
    /\ guests[1].seatId = seats[2].id
    /\ guests[2].seatId = seats[1].id

\* C4: swapping two distinct seats and then the same two seats again gives
\* both seats the guest linkage, and every guest the seat, of before.
DoubleSwapRestores ==
    \A a \in 1..Len(seats), b \in 1..Len(seats) :
        a # b =>
            LET once == swapGuestSeats(seats, guests, seats[a].id, seats[b].id)
                twice == swapGuestSeats(once.seats, once.guests,
                                        seats[a].id, seats[b].id)
            IN  /\ Linkage(twice.seats[a]) = Linkage(seats[a])
                /\ Linkage(twice.seats[b]) = Linkage(seats[b])
                /\ \A j \in 1..Len(guests) :
                       twice.guests[j].seatId = guests[j].seatId

\* The first guest of the roster has been moved to an empty seat, which left
\* its seat empty, and is being dragged again.
MovedGuestDraggedAgain ==
    /\ Len(seats) >= 2
    /\ Len(guests) >= 1
    /\ seats[1].guestId = NULL
    /\ seats[2].guestId = guests[1].id
    /\ guests[1].seatId = seats[2].id
    /\ isDraggingSeat
    /\ dragSourceSeatId = seats[2].id

SectionNames == {seatSections[t].name : t \in 1..Len(seatSections)}

SeatsOf(name) == {i \in 1..Len(seats) : seats[i].section = name}

FreeSeatIn(name) == \E i \in SeatsOf(name) : seats[i].guestId = NULL

Targeting(name) == {j \in 1..Len(guests) : guests[j].assignedSection = name}

\* C5: after an import, a guest whose target section has fewer seats than
\* guests targeting it is without a seat only when no section after the target
\* has a free seat.
OverflowSeatedInFollowingSections ==
    \A j \in 1..Len(guests), t \in 1..Len(seatSections) :
        ( /\ guests[j].assignedSection = seatSections[t].name
          /\ Cardinality(SeatsOf(seatSections[t].name))
                 < Cardinality(Targeting(seatSections[t].name))
          /\ guests[j].seatId = NULL )
        => \A u \in (t + 1)..Len(seatSections) : ~FreeSeatIn(seatSections[u].name)

SingleSectionFilledInOrder ==
    ( /\ Len(seatSections) = 1
      /\ guests # <<>>
      /\ \A j \in 1..Len(guests) : guests[j].assignedSection = seatSections[1].name )
    => LET k == Len(seats)
           m == Len(guests)
           n == Min(k, m)
           again == assignGuestsToSeats(seats, guests, sectionColors, seatSections)
       IN  /\ \A i \in 1..n : /\ seats[i].guestId = guests[i].id
                               /\ guests[i].seatId = seats[i].id
           /\ \A i \in (n + 1)..k : seats[i].guestId = NULL
           /\ \A j \in (n + 1)..m : guests[j].seatId = NULL
           /\ \A i \in 1..k, later \in 1..k :
                  i < later =>
                      \/ seats[i].row < seats[later].row
                      \/ seats[i].row = seats[later].row /\ seats[i].col < seats[later].col
           /\ again.seats = seats
           /\ again.guests = guests
           /\ again.unassigned = [u \in 1..(m - n) |-> n + u]

\* One section of two seats after the import of three guests who target it.
ThreeGuestsTwoSeats ==
    /\ Len(seatSections) = 1
    /\ Len(seats) = 2
    /\ Len(guests) = 3
    /\ \A j \in 1..3 : guests[j].assignedSection = seatSections[1].name
    /\ guests[2].seatId = seats[2].id
    /\ guests[3].seatId = NULL

\* C8: an import of a roster with a row that has neither a number nor a
\* section leaves the guests, the colour map and the seats as they were.
RowWithoutNumberAndSectionRejected ==
    [][(\E file \in Files(MaxGuests, Rows({"Zone1"})) :
           /\ \E k \in 1..Len(file.rows) :
                  Falsy(file.rows[k].number) /\ Falsy(file.rows[k].section)
           /\ handleFileUpload(file))
       => UNCHANGED <<guests, sectionColors, seats>>]_vars

\* C9: after a rebuild every seat whose id was not in the layout before has
\* no guest linkage and is not selected.
NewSeatsStartEmpty ==
    [][RebuildStep =>
          \A j \in 1..Len(seats') :
              seats'[j].id \notin SeatIds(seats)
                  => Linkage(seats'[j]) = NoLinkage /\ ~seats'[j].isSelected]_vars

\* A guest still names a seat that was dropped and created again: the seat is
\* in the layout and holds nobody.
FormerOccupantNotRestored ==
    \E j \in 1..Len(guests), i \in 1..Len(seats) :
        /\ guests[j].seatId = seats[i].id
        /\ seats[i].guestId = NULL

\* C10: no two seats of the layout have the same id.
SeatIdsUnique ==
    \A i \in 1..Len(seats), j \in 1..Len(seats) :
        i # j => seats[i].id # seats[j].id

\* Two sections, the first with a row of three seats split into two blocks,
\* the second with a row of one seat that was laid out again at the boundary.
SplitRowAndSecondSection ==
    /\ Len(seatSections) = 2
    /\ seatSections[1].maxContinuousSeats = 2
    /\ {"S1-R1-1", "S1-R1-2", "S1-R1-3", "S2-R1-1"} \subseteq SeatIds(seats)

-----------------------------------------------------------------------------
(* Row packing: C11-C13, C18, C20 *)

\* The pixel geometry of section i (1-based) and what packRow makes of it
Geometry(i) == sectionGeometry(roomSettings, seatSections[i], zoom, offsetX)

Packed(i) == packRow(Geometry(i))

\* The seats of the layout in row r (1-based) of section i
RowSeats(i, r) ==
    {k \in 1..Len(seats) :
        seats[k].section = seatSections[i].name /\ seats[k].row = r}

\* n * unit - spacing + (ceil(n / maxContinuousSeats) - 1) * aisleWidth
requiredWidth(g, n) ==
    n * g.seatUnitWidth - g.seatSpacingX
        + (Ceil(n, g.maxContinuousSeats) - 1) * g.aisleWidth

RECURSIVE Sum(_)
Sum(widths) == IF widths = <<>> THEN 0 ELSE Head(widths) + Sum(Tail(widths))

\* C11: a packed row with at least one aisle is filled exactly: the seats,
\* their spacing and the aisles add up to the section width within the
\* tolerance, and every aisle has the configured width plus an equal share of
\* the leftover.
AislesFillRow ==
    \A i \in 1..Len(seatSections) :
        LET g == Geometry(i)
            p == Packed(i)
            aisles == p.bestAisleWidths
            leftover == g.sectionWidth - requiredWidth(g, p.bestSeatCount)
        IN  Len(aisles) >= 1 =>
                /\ Abs(p.bestSeatCount * g.seatUnitWidth - g.seatSpacingX
                           + Sum(aisles) - g.sectionWidth) <= Tolerance
                /\ \A k \in 1..Len(aisles) :
                       aisles[k] = g.aisleWidth + leftover \div Len(aisles)

\* A row of the layout, laid out again after a pan, has several aisles that
\* were widened by a share of the leftover.
AislesWidened ==
    \E i \in 1..Len(seatSections) :
        /\ Len(Packed(i).bestAisleWidths) >= 2
        /\ Packed(i).bestAisleWidths[1] > Geometry(i).aisleWidth
        /\ Cardinality(RowSeats(i, 1)) = Packed(i).bestSeatCount
        /\ offsetX = PanStep

\* The largest seat count that fits the width with its aisles (0: none)
MaxFit(g) ==
    LET fit == {n \in 1..maxSeatsWithoutAisles(g) : requiredWidth(g, n) <= g.sectionWidth}
    IN  IF fit = {} THEN 0 ELSE CHOOSE n \in fit : \A m \in fit : m <= n

WithinCountWithoutAisles ==
    \A i \in 1..Len(seatSections) :
        LET g == Geometry(i)
            p == Packed(i)
        IN  /\ p.bestSeatCount <= Max(0, maxSeatsWithoutAisles(g))
            /\ p.bestSeatCount <= g.maxContinuousSeats => p.bestAisleWidths = <<>>
            /\ \A r \in 1..seatSections[i].rows :
                   Cardinality(RowSeats(i, r)) = p.bestSeatCount

\* The venue of the application's defaults after a pan: five rows of ten
\* seats, as many as fit without aisles, in one block.
DefaultRowsInOneBlock ==
    /\ roomSettings = DefaultRoom
    /\ offsetX = PanStep
    /\ maxSeatsWithoutAisles(Geometry(1)) = 10
    /\ Packed(1).bestSeatCount = 10
    /\ Packed(1).bestAisleWidths = <<>>
    /\ \A r \in 1..5 : Cardinality(RowSeats(1, r)) = 10

\* C18: a row of the layout has no seat exactly when the usable width of its
\* section is smaller than the width of a seat; the other rows and sections
\* have their seats.
NarrowRowsAloneAreEmpty ==
    \A i \in 1..Len(seatSections) :
    \A r \in 1..seatSections[i].rows :
        RowSeats(i, r) = {} <=> Geometry(i).sectionWidth < Geometry(i).seatWidth

\* A section too narrow for a seat is followed by a section with seats in
\* both of its rows, after a pan.
EmptyRowsBeforeFilledSection ==
    /\ Len(seatSections) = 2
    /\ Geometry(1).sectionWidth < Geometry(1).seatWidth
        /\ RowSeats(1, 1) = {} /\ RowSeats(1, 2) = {}
    /\ RowSeats(2, 1) # {} /\ RowSeats(2, 2) # {}
    /\ offsetX = PanStep

\* C20: the scan probes at most maxTries candidates, one apart when at most
\* 100 seats fit without aisles and more than one apart above that; when no
\* probed candidate fits and the width holds a seat, the row has exactly one
\* seat and no aisle.
ScanIsCapped ==
    \A i \in 1..Len(seatSections) :
        LET g == Geometry(i)
            n == maxSeatsWithoutAisles(g)
            found == tryLoop(g, n, 0)
            probes == found.tries + (IF found.bestSeatCount > 0 THEN 1 ELSE 0)
        IN  /\ probes <= maxTries
            /\ step(n) = 1 <=> n <= 100
            /\ found.bestSeatCount > 0 => n - found.bestSeatCount = found.tries * step(n)
            /\ (found.bestSeatCount = 0 /\ g.sectionWidth >= g.seatWidth) =>
                   /\ Packed(i).bestSeatCount = 1
                   /\ Packed(i).bestAisleWidths = <<>>
                   /\ \A r \in 1..seatSections[i].rows :
                          Cardinality(RowSeats(i, r)) = 1

\* A row in which more than maxTries seats fit without aisles and every one
\* of the maxTries probes failed: it has one seat, after a pan.
ScanGaveUp ==
    \E i \in 1..Len(seatSections) :
        /\ maxSeatsWithoutAisles(Geometry(i)) > maxTries
        /\ tryLoop(Geometry(i), maxSeatsWithoutAisles(Geometry(i)), 0).tries = maxTries
        /\ Cardinality(RowSeats(i, 1)) = 1
        /\ offsetX = PanStep

-----------------------------------------------------------------------------
(* Clearing, swaps that do not take place, guest data on seats, repeated     *)
(* rebuilds, the order of the assignment: C14-C17, C19                       *)

\* C14: "clear" after an import leaves every seat without guest id, number,
\* name, unit, section and colour, and no guest with a seat.
ClearRemovesLinkage ==
    [][(guests # <<>> /\ resetSeats) =>
          /\ \A i \in 1..Len(seats') : Linkage(seats'[i]) = NoLinkage
          /\ \A j \in 1..Len(guests') : guests'[j].seatId = NULL]_vars

\* The venue was cleared while a seated guest was being dragged: no guest is
\* left, no seat carries one, and the drag is still on.
ClearedWhileDragging ==
    /\ isDraggingSeat
    /\ dragSourceSeatId \in SeatIds(seats)
    /\ guests = <<>>
    /\ \A i \in 1..Len(seats) : Linkage(seats[i]) = NoLinkage

\* C15: a swap of a seat with itself, or with a source or target id that no
\* seat of the layout has, changes no seat and no guest; so does the release
\* of a dragged guest on no seat, on its own seat, or after its seat has left
\* the layout.
SwapWithoutTwoSeatsChangesNothing ==
    /\ [](\A a \in SeatIds(seats) \cup {NULL, dragSourceSeatId},
             b \in SeatIds(seats) \cup {NULL, dragSourceSeatId} :
              (a \notin SeatIds(seats) \/ b \notin SeatIds(seats) \/ a = b)
                  => swapGuestSeats(seats, guests, a, b)
                         = [seats |-> seats, guests |-> guests])
    /\ [][\A target \in 0..Len(seats) :
              ( /\ handleMouseUpOn(target)
                /\ \/ target = 0
                   \/ seats[target].id = dragSourceSeatId
                   \/ dragSourceSeatId \notin SeatIds(seats) )
              => UNCHANGED <<seats, guests>>]_vars

\* A guest is being dragged whose seat has left the layout, while another
\* guest sits on a seat.
DraggedSeatGone ==
    /\ isDraggingSeat
    /\ dragSourceSeatId # NULL
    /\ dragSourceSeatId \notin SeatIds(seats)
    /\ \E i \in 1..Len(seats) : seats[i].guestId # NULL

\* C16: a seat that holds a guest carries the number, name, unit and section
\* of that guest of the roster, and the colour the colour map gives to that
\* section.
SeatCarriesItsGuest ==
    \A i \in 1..Len(seats) :
        seats[i].guestId # NULL =>
            \E j \in 1..Len(guests) :
                /\ guests[j].id = seats[i].guestId
                /\ seats[i].guestNumber = guests[j].number
                /\ seats[i].guestName = guests[j].name
                /\ seats[i].guestUnit = guests[j].unit
                /\ seats[i].assignedSection = guests[j].assignedSection
                /\ guests[j].assignedSection \in DOMAIN sectionColors
                /\ seats[i].sectionColor = sectionColors[guests[j].assignedSection]

\* After a rebuild that narrowed the first section, a seat of one section
\* holds a guest of another section in that guest's colour, and a guest whom
\* no section matches sits in a section in the colour of no section.
GuestsKeepColourElsewhere ==
    /\ seatSections[1].rightWallDistance = 1300
    /\ \E i \in 1..Len(seats), k \in 1..Len(seats) :
           /\ seats[i].guestId # NULL
           /\ seats[k].guestId # NULL
           /\ seats[i].assignedSection \in SectionNames \ {seats[i].section}
           /\ seats[k].assignedSection \notin SectionNames
           /\ seats[i].sectionColor = sectionColors[seats[i].assignedSection]
           /\ seats[k].sectionColor = sectionColors[seats[k].assignedSection]
           /\ seats[i].sectionColor # seats[k].sectionColor

\* C17: rebuilding the layout again with the same configuration and viewport
\* gives the seats of the layout: same ids in the same order, same positions,
\* same occupied flags and guest linkage.
RebuildIsIdempotent ==
    generateSeats(seats, <<>>, roomSettings, stageSettings, seatSections,
                  zoom, offsetX, offsetY) = seats

\* A layout of two sections rebuilt after a pan, with a seat that holds a
\* guest, a seat that is occupied without a guest, and a free seat.
RebuiltWithGuestAndOccupied ==
    /\ Len(seatSections) = 2
    /\ offsetX = PanStep
    /\ \E i \in 1..Len(seats), k \in 1..Len(seats), free \in 1..Len(seats) :
           /\ seats[i].guestId # NULL
           /\ seats[k].guestId = NULL /\ seats[k].occupied
           /\ seats[free].guestId = NULL /\ ~seats[free].occupied

\* The guests who sit in section t (1-based), and those still pending when
\* the assignment comes to it
SeatedIn(t) ==
    {j \in 1..Len(guests) :
        \E i \in SeatsOf(seatSections[t].name) : seats[i].guestId = guests[j].id}

Pending(t) == {j \in 1..Len(guests) : \A u \in 1..(t - 1) : j \notin SeatedIn(u)}

\* The candidates of section t: the pending guests who target it or, when
\* there is none, the first pending guest
Candidates(t) ==
    LET own == Pending(t) \cap Targeting(seatSections[t].name)
    IN  IF own # {} THEN own
        ELSE {j \in Pending(t) : \A other \in Pending(t) : j <= other}

\* The place of an element among the smaller elements of a set of numbers
Place(x, set) == Cardinality({y \in set : y <= x})

-----------------------------------------------------------------------------
(* Blocks, spans, rows and gaps of the finished layout: C21-C23, C29         *)

\* The seat of column c in row r of section i
SeatAt(i, r, c) == seats[CHOOSE k \in RowSeats(i, r) : seats[k].col = c]

\* The free width between the seats of columns c and c + 1
Gap(i, r, c) == SeatAt(i, r, c + 1).x - (SeatAt(i, r, c).x + SeatAt(i, r, c).width)

\* The rows of the layout that have seats
FilledRows ==
    {ir \in UNION {{<<i, r>> : r \in 1..seatSections[i].rows} : i \in 1..Len(seatSections)} :
        RowSeats(ir[1], ir[2]) # {}}

\* C21: the seats of a row come in ceil(seatCount / maxContinuousSeats)
\* blocks, every block but the last of exactly maxContinuousSeats seats, the
\* sizes adding up to the seat count; the seats are numbered through the
\* blocks, and in a row of several blocks the seats of a block are the seat
\* spacing apart while an aisle of at least the configured width lies between
\* the last seat of a block and the first seat of the next.
RowsComeInBlocks ==
    \A ir \in FilledRows :
        LET i == ir[1]
            r == ir[2]
            g == Geometry(i)
            n == Cardinality(RowSeats(i, r))
            perBlock == seatsPerBlock(n, g.maxContinuousSeats)
        IN  /\ Len(perBlock) = Ceil(n, g.maxContinuousSeats)
            /\ \A b \in 1..(Len(perBlock) - 1) : perBlock[b] = g.maxContinuousSeats
            /\ perBlock[Len(perBlock)] \in 1..g.maxContinuousSeats
            /\ Sum(perBlock) = n
            /\ {seats[k].col : k \in RowSeats(i, r)} = 1..n
            /\ Len(perBlock) > 1 =>
                   \A c \in 1..(n - 1) :
                       IF c % g.maxContinuousSeats = 0
                       THEN Gap(i, r, c) >= g.aisleWidth
                       ELSE Gap(i, r, c) = g.seatSpacingX

\* A row of full blocks of ten seats and a last block of fewer, after a pan.
RowWithShortLastBlock ==
    \E ir \in FilledRows :
        /\ Geometry(ir[1]).maxContinuousSeats = 10
        /\ Cardinality(RowSeats(ir[1], ir[2])) > 10
        /\ Cardinality(RowSeats(ir[1], ir[2])) % 10 # 0
        /\ offsetX = PanStep

\* The gaps of row r of section i that are aisles, and those that are not
AisleGaps(i, r) ==
    {Gap(i, r, c) : c \in {d \in 1..(Cardinality(RowSeats(i, r)) - 1) :
                              d % Geometry(i).maxContinuousSeats = 0}}

SeatGaps(i, r) ==
    {Gap(i, r, c) : c \in {d \in 1..(Cardinality(RowSeats(i, r)) - 1) :
                              d % Geometry(i).maxContinuousSeats # 0}}

\* C22: in the finished layout the first seat of every row stands at the
\* left edge of the section; a row of two or more seats ends at the right
\* edge within the tolerance, with aisles of one width when it has several
\* blocks and with seat gaps of one width when it has one block.
RowsSpanSection ==
    \A ir \in FilledRows :
        LET i == ir[1]
            r == ir[2]
            g == Geometry(i)
            n == Cardinality(RowSeats(i, r))
        IN  /\ SeatAt(i, r, 1).x = g.sectionLeft
            /\ n >= 2 =>
                   /\ Abs(SeatAt(i, r, n).x + SeatAt(i, r, n).width
                              - (g.sectionLeft + g.sectionWidth)) <= Tolerance
                   /\ IF n > g.maxContinuousSeats
                      THEN Cardinality(AisleGaps(i, r)) = 1
                      ELSE Cardinality(SeatGaps(i, r)) = 1

\* A row of one block whose seats stand further apart than the configured
\* spacing, after a pan.
SpreadBlockLaidOut ==
    /\ \E ir \in FilledRows :
           /\ Cardinality(RowSeats(ir[1], ir[2])) \in 2..Geometry(ir[1]).maxContinuousSeats
           /\ Gap(ir[1], ir[2], 1) > Geometry(ir[1]).seatSpacingX + Tolerance
    /\ offsetX = PanStep

\* The top of section i as the sections before it and the stage place it
RECURSIVE SectionTop(_)
SectionTop(i) ==
    LET fs == finalScale(roomSettings, zoom)
        own == ToPx(seatSections[i].previousSectionDistance, fs)
    IN  IF i = 1
        THEN baseOffsetY(roomSettings) + offsetY
                 + (IF stageSettings.exists THEN ToPx(stageSettings.length, fs) ELSE 0)
                 + own
        ELSE SectionTop(i - 1)
                 + seatSections[i - 1].rows * Geometry(i - 1).seatLength
                 + (seatSections[i - 1].rows - 1) * Geometry(i - 1).seatSpacingY
                 + own

\* C23: every seat of row r (counted from 0) of a section stands at the
\* section's top plus r times seat length plus front-back spacing; the first
\* section's top is the drawing origin plus the stage length, when there is a
\* stage, plus its previousSectionDistance, and a later section's top is the
\* top of the section before plus that section's rows times seat length and
\* rows - 1 times spacing plus its own previousSectionDistance, whether or
\* not the rows before have seats.
RowsStandBelowEachOther ==
    \A i \in 1..Len(seatSections) :
    \A r \in 1..seatSections[i].rows :
    \A k \in RowSeats(i, r) :
        seats[k].y = SectionTop(i)
                       + (r - 1) * (Geometry(i).seatLength + Geometry(i).seatSpacingY)

\* Behind a stage, two sections with seats in all their rows, after a pan.
TwoSectionsBehindStage ==
    /\ stageSettings.exists
    /\ Len(seatSections) = 2
    /\ \A i \in 1..2 : \A r \in 1..seatSections[i].rows : RowSeats(i, r) # {}
    /\ \E k \in RowSeats(2, 2) : seats[k].y > SectionTop(2)
    /\ offsetX = PanStep

\* C29: the seats of every row lie between the left and the right edge of
\* their section (the right edge within the tolerance) and do not overlap;
\* two seats of one block are at least the configured seat spacing apart, and
\* the seats on the two sides of a block boundary at least the configured
\* aisle width.
SeatsKeepTheirDistance ==
    \A ir \in FilledRows :
        LET i == ir[1]
            r == ir[2]
            g == Geometry(i)
            n == Cardinality(RowSeats(i, r))
        IN  /\ \A k \in RowSeats(i, r) :
                   /\ seats[k].x >= g.sectionLeft
                   /\ seats[k].x + seats[k].width <= g.sectionLeft + g.sectionWidth + Tolerance
            /\ \A c \in 1..(n - 1) :
                   /\ Gap(i, r, c) >= 0
                   /\ IF c % g.maxContinuousSeats = 0
                      THEN Gap(i, r, c) >= g.aisleWidth
                      ELSE Gap(i, r, c) >= g.seatSpacingX

\* A row of one block with its seats spread out and, in the next section, a
\* row of several blocks with widened aisles, after a pan.
SpreadRowAndAisleRow ==
    /\ Len(seatSections) = 2
    /\ Cardinality(RowSeats(1, 1)) \in 2..Geometry(1).maxContinuousSeats
    /\ Geometry(1).seatSpacingX > 0
    /\ Gap(1, 1, 1) > Geometry(1).seatSpacingX
    /\ Cardinality(RowSeats(2, 1)) > 2 * Geometry(2).maxContinuousSeats
    /\ Gap(2, 1, Geometry(2).maxContinuousSeats) > Geometry(2).aisleWidth
    /\ offsetX = PanStep

-----------------------------------------------------------------------------
(* Section names and the rows of same-named sections: C24, C30               *)

\* C24: after any sequence of addSeatSection and removeSeatSection from the
\* default configuration, no two sections have the same name.
SectionNamesDistinct ==
    \A i \in 1..Len(seatSections) :
    \A j \in 1..Len(seatSections) :
        i # j => seatSections[i].name # seatSections[j].name

\* The ids of the seats that the packing gives row r of section i
PackedIds(i, r) == {seatId(i - 1, r - 1, c) : c \in 1..Packed(i).bestSeatCount}

\* The ids of all rows of all sections
AllPackedIds ==
    UNION {UNION {PackedIds(i, r) : r \in 1..seatSections[i].rows} :
              i \in 1..Len(seatSections)}

\* C30: the finished layout holds, for every section i and every row r of
\* it, exactly the seats S(i)-R(r)-1 .. S(i)-R(r)-n of the packed seat count
\* n, each once, whatever the names of the sections: laying a row again
\* takes no seat of another row or section away.
EveryRowComplete ==
    /\ SeatIds(seats) = AllPackedIds
    /\ Len(seats) = Cardinality(AllPackedIds)

-----------------------------------------------------------------------------
(* The assignment and what it finds on the seats; overlapping imports:       *)
(* C25, C26                                                                  *)

\* The seats without any guest linkage and the guests without a seat
CleanSeats == [i \in 1..Len(seats) |-> clearGuest(seats[i])]

CleanGuests == [j \in 1..Len(guests) |-> [guests[j] EXCEPT !.seatId = NULL]]

\* What assignGuestsToSeats makes of the seats and guests as they are
AssignedNow == assignGuestsToSeats(seats, guests, sectionColors, seatSections)

\* C25: whatever linkage and seat ids an earlier assignment and the swaps
\* have left, assignGuestsToSeats gives the seats, guests and unplaced guests
\* that it gives on seats without linkage and guests without seat, and
\* assigning once more changes nothing.
AssignStartsFromCleanSlate ==
    /\ AssignedNow = assignGuestsToSeats(CleanSeats, CleanGuests, sectionColors, seatSections)
    /\ assignGuestsToSeats(AssignedNow.seats, AssignedNow.guests,
                           sectionColors, seatSections) = AssignedNow

\* A swap has moved a guest to a seat that the assignment would not give:
\* the linkage on the seats is not what an assignment leaves.
SwapLeftOtherLinkage ==
    /\ \E j \in 1..Len(guests) :
           /\ guests[j].seatId # NULL
           /\ AssignedNow.guests[j].seatId # guests[j].seatId
    /\ \E i \in 1..Len(seats) :
           seats[i].guestId # NULL /\ AssignedNow.seats[i].guestId = NULL
    /\ ~isDraggingSeat

\* The guests, the colour map and the linkage of every seat come from the
\* roster of this file.
FromRoster(file) ==
    LET roster == parseExcelData(file).data
        colorOf == generateSectionColors(roster)
    IN  /\ parseExcelData(file).resolved
        /\ CleanGuests = roster
        /\ sectionColors = colorOf
        /\ \A i \in 1..Len(seats) :
               \/ Linkage(seats[i]) = NoLinkage
               \/ \E j \in 1..Len(roster) :
                      Linkage(seats[i]) =
                          <<roster[j].id, roster[j].number, roster[j].name,
                            roster[j].unit, roster[j].assignedSection,
                            colorOf[roster[j].assignedSection]>>

\* The file whose reader fires in this step, when one does
Fired(k) ==
    /\ k \in 1..Len(reading)
    /\ reading' = [i \in 1..(Len(reading) - 1) |->
                      IF i < k THEN reading[i] ELSE reading[i + 1]]

\* The reader of a file fires: a roster that resolves is the roster of the
\* next state, and a file that cannot be read changes nothing.
LastAppliedWins ==
    Len(reading') < Len(reading) =>
        \E k \in 1..Len(reading) :
            /\ Fired(k)
            /\ IF parseExcelData(reading[k]).resolved
               THEN /\ [j \in 1..Len(guests') |-> [guests'[j] EXCEPT !.seatId = NULL]]
                           = parseExcelData(reading[k]).data
                    /\ sectionColors' = generateSectionColors(parseExcelData(reading[k]).data)
               ELSE UNCHANGED <<seats, guests, sectionColors>>

\* C26: with files chosen while others are still being read, and swaps and
\* rebuilds in between, the guests, the colour map and the guest linkage of
\* every seat are in every state those of one roster, and every read that
\* ends puts its whole roster in the place of the one before.
ImportsNeverMix ==
    /\ [](\E file \in ImportFiles : FromRoster(file))
    /\ [][LastAppliedWins]_vars

\* Two files with different rosters are being read while the guest of a
\* third roster sits on a seat that a swap gave them.
TwoReadsOverSwappedGuest ==
    /\ Len(reading) = 2
    /\ parseExcelData(reading[1]).resolved /\ parseExcelData(reading[2]).resolved
    /\ parseExcelData(reading[1]).data # parseExcelData(reading[2]).data
    /\ ~FromRoster(reading[1]) /\ ~FromRoster(reading[2])
    /\ \E j \in 1..Len(guests) :
           /\ guests[j].seatId # NULL
           /\ AssignedNow.guests[j].seatId # guests[j].seatId

-----------------------------------------------------------------------------
(* The layer script and the popup: C27, C28                                  *)

\* x has ended, the timer has fired and the scene has no Delete left to
\* serve: nothing of the script is left to run.
ScriptAtRest == layer.pc = "done" /\ ~layer.timer /\ layer.deleting = 0

\* Every call of App.Scene whose result x looked at reported success.
SceneCallsSucceeded ==
    \A got \in {layer.re, layer.res, layer.re93} : got # <<>> => got[1].success

\* C27: whenever the delete request comes, while the add is in flight or
\* after it: once x has ended, the timer has fired and the scene has served
\* every call with success, the layer is not in the scene.
LayerGoneWhenScriptAtRest ==
    (ScriptAtRest /\ SceneCallsSucceeded) => layerId \notin layer.scene

\* Every render that was started has resolved or thrown and every scene that
\* was started has reported created or error.
PopupAtRest == popup.rendering = 0 /\ popup.starting = 0

\* C28: once every render has resolved or thrown and every scene has
\* reported created or error, no loading indicator that a submit opened is
\* still shown.
EveryLoadingClosed == PopupAtRest => popup.shown = {}

=============================================================================
